---- MODULE Spec2Model ----
(***************************************************************************)
(* flame-chart-js v2.3.1: the viewport engine (RenderEngine and its child  *)
(* OffscreenRenderEngines), the time grid accuracy, the hit-region         *)
(* interaction dispatcher (InteractionsEngine / SeparatedInteractions-     *)
(* Engine) and the plugins that drive them (TimeframeSelectorPlugin,       *)
(* TimeGridPlugin, FlameChartPlugin), as composed by FlameChart when it is *)
(* constructed with `data` only: panel 1 is the timeframe selector, panel  *)
(* 2 the time grid, panel 3 the flame chart.                               *)
(*                                                                         *)
(* Numbers.  JavaScript numbers are modelled as exact rationals <<n, d>>   *)
(* (d > 0, lowest terms), so every statement checked here is a statement   *)
(* about the arithmetic of the code without its floating-point rounding.   *)
(* Times are held in ticks: one time unit of the data is TimeScale ticks.  *)
(* Only TimeGrid.calcNumberFix reads the absolute magnitude of a time, and *)
(* it converts back.                                                       *)
(***************************************************************************)
EXTENDS Integers, Sequences, FiniteSets

----------------------------------------------------------------------------
(* Exact arithmetic *)

Abs(n) == IF n < 0 THEN 0 - n ELSE n

RECURSIVE Gcd(_, _)
Gcd(a, b) == IF b = 0 THEN a ELSE Gcd(b, a % b)

Rat(n, d) ==
    LET g == Gcd(Abs(n), Abs(d))
        s == IF d < 0 THEN 0 - 1 ELSE 1
    IN  <<(s * n) \div g, (s * d) \div g>>

R(n) == <<n, 1>>
R0 == <<0, 1>>
R1 == <<1, 1>>

\* sums and products are reduced before they are multiplied out, so that the
\* intermediate integers stay small
RAdd(a, b) ==
    LET g == Gcd(a[2], b[2])
    IN  Rat(a[1] * (b[2] \div g) + b[1] * (a[2] \div g), (a[2] \div g) * b[2])
RSub(a, b) ==
    LET g == Gcd(a[2], b[2])
    IN  Rat(a[1] * (b[2] \div g) - b[1] * (a[2] \div g), (a[2] \div g) * b[2])
RMul(a, b) ==
    LET g1 == Gcd(Abs(a[1]), b[2])
        g2 == Gcd(Abs(b[1]), a[2])
    IN  Rat((a[1] \div g1) * (b[1] \div g2), (a[2] \div g2) * (b[2] \div g1))
RDiv(a, b) == RMul(a, IF b[1] < 0 THEN <<0 - b[2], 0 - b[1]>> ELSE <<b[2], b[1]>>)
RNeg(a) == <<0 - a[1], a[2]>>
RLt(a, b) ==
    LET g == Gcd(a[2], b[2])
    IN  a[1] * (b[2] \div g) < b[1] * (a[2] \div g)
RLe(a, b) ==
    LET g == Gcd(a[2], b[2])
    IN  a[1] * (b[2] \div g) <= b[1] * (a[2] \div g)
RGt(a, b) == RLt(b, a)
RGe(a, b) == RLe(b, a)
RFloor(a) == a[1] \div a[2]
RIsZero(a) == a[1] = 0

----------------------------------------------------------------------------
(* Program constants *)

MAX_ACCURACY == 6
MIN_PIXEL_DELTA == 85
DoubleClickDelay == 300
KnobSize == 6
SelectorHeight == 60
BlockHeight == 16
RebuildDelay == 16
\* environment: the height of the 10px font plus one (BasicRenderEngine.charHeight)
CharHeight == 10
\* ticks per time unit of the data
TimeScale == 1000000
\* the number 1 of the code where it stands for a zoom (pixels per time unit)
ROne == <<1, TimeScale>>
\* the number 1 of the code where it stands for a time
TOne == <<TimeScale, 1>>

----------------------------------------------------------------------------
(* BasicRenderEngine: the viewport of one engine.  An engine is a record   *)
(* with zoom, positionX, min, max (rationals) and width, height (pixels).  *)
(* Operators below that take `w` work on the whole program state:          *)
(*   w.re   the root RenderEngine        w.ch   its children (the panels)  *)
(*   w.tg   the TimeGrid                 w.ie   the InteractionsEngine     *)
(*   w.hr   the panels' hit regions      w.sel  TimeframeSelectorPlugin    *)
(*   w.fc   FlameChartPlugin             w.fr   the scheduled frames       *)
(*   w.ev   what the root dispatcher emitted in the handler being run      *)

\* timeToPosition with the scroll offset forgotten
timeToPositionUnscrolled(e, time) == RMul(time, e.zoom)

timeToPosition(e, time) == RSub(RMul(time, e.zoom), RMul(e.positionX, e.zoom))

pixelToTime(e, width) == RDiv(width, e.zoom)

getInitialZoom(e) ==
    IF RGt(RSub(e.max, e.min), R0)
    THEN RDiv(R(e.width), RSub(e.max, e.min))
    ELSE ROne

getRealView(e) == RDiv(R(e.width), e.zoom)

\* BasicRenderEngine.setZoom / setPositionX on one engine record
BasicSetZoom(e, zoom) == [e EXCEPT !.zoom = zoom]

BasicSetPositionX(e, x) == [e EXCEPT !.positionX = x]

BasicSetMinMax(e, min, max) == [e EXCEPT !.min = min, !.max = max]

BasicResetView(e) == BasicSetPositionX(BasicSetZoom(e, getInitialZoom(e)), e.min)

----------------------------------------------------------------------------
(* RenderEngine (the root): every mutation is pushed to the children *)

SetZoomAccepted(w, zoom) == w.tg.accuracy < MAX_ACCURACY \/ RLe(zoom, w.re.zoom)

\* setZoom without the guard on the accuracy
SetZoomUnguarded(w, zoom) ==
    [w EXCEPT !.re = BasicSetZoom(@, zoom),
              !.ch = [i \in DOMAIN w.ch |-> BasicSetZoom(w.ch[i], zoom)]]

SetZoom(w, zoom) ==
    IF SetZoomAccepted(w, zoom)
    THEN [w EXCEPT !.re = BasicSetZoom(@, zoom),
                   !.ch = [i \in DOMAIN w.ch |-> BasicSetZoom(w.ch[i], zoom)]]
    ELSE w

SetPositionX(w, x) ==
    [w EXCEPT !.re = BasicSetPositionX(@, x),
              !.ch = [i \in DOMAIN w.ch |-> BasicSetPositionX(w.ch[i], x)]]

\* the three branches of BasicRenderEngine.tryToChangePosition, run on the root
TryToChangePosition(w, positionDelta) ==
    LET realView == getRealView(w.re)
        target == RAdd(w.re.positionX, positionDelta)
    IN  IF RLe(RAdd(target, realView), w.re.max) /\ RGe(target, w.re.min)
        THEN SetPositionX(w, target)
        ELSE IF RLe(target, w.re.min)
        THEN SetPositionX(w, w.re.min)
        ELSE IF RGe(RAdd(target, realView), w.re.max)
        THEN SetPositionX(w, RSub(w.re.max, realView))
        ELSE w

ResetView(w) == SetPositionX(SetZoom(w, getInitialZoom(w.re)), w.re.min)

----------------------------------------------------------------------------
(* TimeGrid.recalc: the accuracy (digits shown in the tick labels) *)

RECURSIVE Log2Floor(_)
Log2Floor(q) ==
    IF RGe(q, R(2)) THEN Log2Floor(RDiv(q, R(2))) + 1
    ELSE IF RLt(q, R1) THEN Log2Floor(RMul(q, R(2))) - 1
    ELSE 0

Pow2(k) == IF k >= 0 THEN R(2 ^ k) ELSE <<1, 2 ^ (0 - k)>>

\* the least k >= from with f * 10^k >= 1, for 0 < f < 1: one more than the
\* number of zeros that follow the decimal point of f
RECURSIVE LeadingDigit(_, _)
LeadingDigit(f, from) ==
    IF f[1] >= (f[2] + (10 ^ from) - 1) \div (10 ^ from)
    THEN from ELSE LeadingDigit(f, from + 1)

\* (delta / 2).toString() matched against /(0\.0*)/, or its exponent when
\* the string is in exponent form; v is delta / 2 in ticks
calcNumberFix(v) ==
    LET u == RDiv(v, R(TimeScale))
        int == RFloor(u)
        frac == RSub(u, R(int))
    IN  IF RIsZero(frac) THEN 0
        ELSE IF int % 10 = 0 THEN LeadingDigit(frac, 1)
        ELSE 0

timeGridDelta(e) ==
    LET timeWidth == RSub(e.max, e.min)
        initialLinesCount == <<e.width, MIN_PIXEL_DELTA>>
        initialTimeLineDelta == RDiv(timeWidth, Rat(initialLinesCount[1], initialLinesCount[2]))
        realView == getRealView(e)
        proportion == RDiv(realView, IF RIsZero(timeWidth) THEN TOne ELSE timeWidth)
    IN  RDiv(initialTimeLineDelta, Pow2(Log2Floor(RDiv(R1, proportion))))

recalc(w) ==
    [w EXCEPT !.tg.accuracy = calcNumberFix(RDiv(timeGridDelta(w.re), R(2)))]

----------------------------------------------------------------------------
(* The panels: plugins[i] draws into children[i].  FlameChart built with   *)
(* `data` only has plugins = [timeframeSelector, timeGrid, flameChart].    *)

SELECTOR == 1
TIMEGRID == 2
FLAME == 3
Panels == {SELECTOR, TIMEGRID, FLAME}

\* a plugin of RenderEngine.plugins: its name, its height, and what a
\* TogglePlugin remembers of the drag of its knob
Plugin(name, height) ==
    [name |-> name, height |-> height, resizeActive |-> FALSE,
     resizeStartHeight |-> 0, resizeStartPosition |-> 0]

\* plugin.height: the selector's styles.height, the time grid's
\* Math.round(charHeight + 10), the flame chart's 0
ChartPlugins ==
    <<Plugin("timeframeSelectorPlugin", SelectorHeight),
      Plugin("timeGridPlugin", CharHeight + 10),
      Plugin("flameChartPlugin", 0)>>

pluginHeight(w, i) == w.re.plugins[i].height

engineType(w, i) ==
    IF w.ch[i].flexible /\ pluginHeight(w, i) # 0 THEN "flexibleStatic"
    ELSE IF pluginHeight(w, i) = 0 THEN "flexibleGrowing"
    ELSE "static"

\* a || b on heights
OrElse(a, b) == IF a # 0 THEN a ELSE b

RECURSIVE SumOver(_, _)
SumOver(f, n) == IF n = 0 THEN 0 ELSE SumOver(f, n - 1) + f[n]

getChildrenSizes(w) ==
    LET n == Len(w.ch)
        used == [i \in 1..n |->
                    IF w.ch[i].collapsed THEN 0
                    ELSE IF engineType(w, i) = "flexibleGrowing" THEN w.ch[i].height
                    ELSE IF engineType(w, i) = "flexibleStatic"
                         THEN OrElse(w.ch[i].height, pluginHeight(w, i))
                    ELSE pluginHeight(w, i)]
        freeSpace == w.re.height - SumOver(used, n)
        flexibleGrowingCount == Cardinality({i \in 1..n : engineType(w, i) = "flexibleGrowing"})
        freeSpacePart == IF flexibleGrowingCount = 0 THEN 0
                         ELSE freeSpace \div flexibleGrowingCount
        heights == [i \in 1..n |->
                    IF w.ch[i].collapsed THEN 0
                    ELSE IF engineType(w, i) = "static" THEN pluginHeight(w, i)
                    ELSE IF engineType(w, i) = "flexibleGrowing"
                         THEN w.ch[i].height + freeSpacePart
                    ELSE OrElse(w.ch[i].height, pluginHeight(w, i))]
    IN  [i \in 1..n |-> [width |-> w.re.width,
                          position |-> SumOver(heights, i - 1),
                          height |-> heights[i]]]

\* TimeframeSelectorPlugin.offscreenRender, as far as the viewport of the
\* selector's off-screen engine goes
offscreenRender(w) == [w EXCEPT !.sel.off = BasicResetView(@)]

\* OffscreenRenderEngine.resize of panel i, called by the root; the selector
\* panel forwards the size to its off-screen child, whose 'resize' listener
\* re-fits it.  (The child's resize calls recalcChildrenSizes again when its
\* height changed; that nested call computes the same sizes.)
resizeChild(w, i, size) ==
    LET sized == [w EXCEPT !.ch[i].width = size.width, !.ch[i].height = size.height,
                           !.ch[i].position = size.position]
        offChanged == w.sel.off.width # size.width \/ w.sel.off.height # size.height
    IN  IF w.re.plugins[i].name = "timeframeSelectorPlugin" /\ offChanged
        THEN offscreenRender([sized EXCEPT !.sel.off.width = size.width,
                                           !.sel.off.height = size.height])
        ELSE sized

RECURSIVE resizeChildren(_, _, _)
resizeChildren(w, sizes, i) ==
    IF i > Len(w.ch) THEN w
    ELSE resizeChildren(resizeChild(w, i, sizes[i]), sizes, i + 1)

recalcChildrenSizes(w) ==
    LET sized(childrenSizes) ==
            resizeChildren(
                [w EXCEPT !.re.freeSpace = w.re.height
                      - SumOver([i \in 1..Len(w.ch) |-> childrenSizes[i].height], Len(w.ch))],
                childrenSizes, 1)
    IN  sized(getChildrenSizes(w))

\* RenderEngine.resize(width, height)
resize(w, width, height) ==
    LET refit(v) ==
            IF RGt(getInitialZoom(v.re), v.re.zoom)
            THEN ResetView(v)
            ELSE IF RGt(v.re.positionX, v.re.min)
            THEN TryToChangePosition(v,
                     RNeg(pixelToTime(v.re, Rat(width - w.re.width, 2))))
            ELSE v
    IN  refit(recalcChildrenSizes([w EXCEPT !.re.width = width, !.re.height = height]))

\* RenderEngine.setMinMax: the root, the panels and the selector's off-screen
\* child; the child's 'min-max-change' listener asks for a redraw
setMinMax(w, min, max) ==
    [w EXCEPT !.re = BasicSetMinMax(@, min, max),
              !.ch = [i \in DOMAIN w.ch |-> BasicSetMinMax(w.ch[i], min, max)],
              !.sel.off = BasicSetMinMax(@, min, max),
              !.sel.shouldRender = @ \/ w.sel.off.min # min \/ w.sel.off.max # max]

----------------------------------------------------------------------------
(* Tree flattening and clustering.  A tree node is a record                *)
(* [start, duration, type, color, children]; a flat node carries start,    *)
(* duration, type and color of its source, and end, level, index, parent   *)
(* (the index of the parent's flat node, -1 for null).                     *)

MIN_BLOCK_SIZE == R1
STICK_DISTANCE == <<1, 4>>
MIN_CLUSTER_SIZE == RAdd(RMul(MIN_BLOCK_SIZE, R(2)), STICK_DISTANCE)

RECURSIVE walk(_, _, _, _)
walk(treeList, parent, level, index) ==
    IF Len(treeList) = 0 THEN <<>>
    ELSE LET child == Head(treeList)
             newNode == [start |-> child.start, duration |-> child.duration,
                         type |-> child.type, color |-> child.color,
                         end |-> RAdd(child.start, child.duration),
                         parent |-> parent, level |-> level, index |-> index]
             below == walk(child.children, index, level + 1, index + 1)
         IN  <<newNode>> \o below \o
             walk(Tail(treeList), parent, level, index + 1 + Len(below))

\* the comparator of flatTree's sort: a.level - b.level || a.start - b.start
compareFlat(a, b) ==
    IF a.level # b.level THEN a.level - b.level
    ELSE IF RLt(a.start, b.start) THEN 0 - 1
    ELSE IF RGt(a.start, b.start) THEN 1
    ELSE 0

\* Array.prototype.sort is stable: x goes after every element not above it
RECURSIVE insertSorted(_, _)
insertSorted(sorted, x) ==
    IF Len(sorted) = 0 THEN <<x>>
    ELSE IF compareFlat(Head(sorted), x) <= 0
    THEN <<Head(sorted)>> \o insertSorted(Tail(sorted), x)
    ELSE <<x>> \o sorted

RECURSIVE sortFlat(_)
sortFlat(nodes) ==
    IF Len(nodes) = 0 THEN <<>>
    ELSE insertSorted(sortFlat(SubSeq(nodes, 1, Len(nodes) - 1)), nodes[Len(nodes)])

\* flatTree that returns the nodes as it visited them
flatTreeUnsorted(treeList) == walk(treeList, 0 - 1, 0, 0)

flatTree(treeList) == sortFlat(walk(treeList, 0 - 1, 0, 0))

RECURSIVE getFlatTreeMinMax(_)
getFlatTreeMinMax(flat) ==
    IF Len(flat) = 0 THEN [min |-> R0, max |-> R0]
    ELSE IF Len(flat) = 1 THEN [min |-> flat[1].start, max |-> flat[1].end]
    ELSE LET acc == getFlatTreeMinMax(SubSeq(flat, 1, Len(flat) - 1))
             node == flat[Len(flat)]
         IN  [min |-> IF RLt(acc.min, node.start) THEN acc.min ELSE node.start,
              max |-> IF RGt(acc.max, node.end) THEN acc.max ELSE node.end]

calcClusterDuration(nodes) ==
    RSub(RAdd(nodes[Len(nodes)].start, nodes[Len(nodes)].duration), nodes[1].start)

checkNodeTimeboundNesting(node, start, end) ==
    \/ RLt(node.start, end) /\ RGt(node.end, start)
    \/ RGt(node.start, start) /\ RLt(node.end, end)

\* the test that asks for a cluster to lie wholly inside the window
checkClusterWithin(node, start, end) ==
    RGe(node.start, start) /\ RLe(node.end, end)

checkClusterTimeboundNesting(node, start, end) ==
    \/ RLt(node.start, end) /\ RGt(node.end, start)
    \/ RGt(node.start, start) /\ RLt(node.end, end)

defaultClusterizeCondition(prevNode, node) ==
    prevNode.color = node.color /\ prevNode.type = node.type

\* metaClusterizeFlatTree that never joins two nodes
metaClusterizeApart(flat) == [i \in 1..Len(flat) |-> [nodes |-> <<flat[i]>>]]

RECURSIVE metaClusterizeFlatTree(_)
metaClusterizeFlatTree(flat) ==
    IF Len(flat) = 0 THEN <<>>
    ELSE LET acc == metaClusterizeFlatTree(SubSeq(flat, 1, Len(flat) - 1))
             node == flat[Len(flat)]
         IN  IF Len(acc) > 0
                /\ acc[Len(acc)].nodes[Len(acc[Len(acc)].nodes)].level = node.level
                /\ defaultClusterizeCondition(
                       acc[Len(acc)].nodes[Len(acc[Len(acc)].nodes)], node)
             THEN [acc EXCEPT ![Len(acc)].nodes = Append(@, node)]
             ELSE Append(acc, [nodes |-> <<node>>])

\* the loop that never puts more than two nodes in a cluster
RECURSIVE clusterizeNodesInPairs(_, _, _, _, _, _)
clusterizeNodesInPairs(nodes, zoom, start, end, stickDistance, minBlockSize) ==
    IF Len(nodes) = 0 THEN [acc |-> <<>>, open |-> FALSE]
    ELSE LET st == clusterizeNodesInPairs(SubSeq(nodes, 1, Len(nodes) - 1), zoom, start,
                                          end, stickDistance, minBlockSize)
             node == nodes[Len(nodes)]
             lastCluster == st.acc[Len(st.acc)]
             lastNode == lastCluster[Len(lastCluster)]
         IN  IF ~checkNodeTimeboundNesting(node, start, end) THEN st
             ELSE IF st.open /\ Len(lastCluster) < 2
                     /\ RLt(RMul(RSub(node.start, RAdd(lastNode.start, lastNode.duration)),
                                 zoom), stickDistance)
                     /\ RLt(RMul(node.duration, zoom), minBlockSize)
                     /\ RLt(RMul(lastNode.duration, zoom), minBlockSize)
             THEN [st EXCEPT !.acc[Len(st.acc)] = Append(@, node)]
             ELSE [acc |-> Append(st.acc, <<node>>), open |-> TRUE]

\* the loop over the nodes of one meta-cluster: `acc` the clusters so far
\* (the last one is lastCluster while `open`), `last` the lastNode
RECURSIVE clusterizeNodes(_, _, _, _, _, _)
clusterizeNodes(nodes, zoom, start, end, stickDistance, minBlockSize) ==
    IF Len(nodes) = 0 THEN [acc |-> <<>>, open |-> FALSE]
    ELSE LET st == clusterizeNodes(SubSeq(nodes, 1, Len(nodes) - 1), zoom, start, end,
                                   stickDistance, minBlockSize)
             node == nodes[Len(nodes)]
             lastCluster == st.acc[Len(st.acc)]
             lastNode == lastCluster[Len(lastCluster)]
         IN  IF ~checkNodeTimeboundNesting(node, start, end) THEN st
             ELSE IF st.open
                     /\ RLt(RMul(RSub(node.start, RAdd(lastNode.start, lastNode.duration)),
                                 zoom), stickDistance)
                     /\ RLt(RMul(node.duration, zoom), minBlockSize)
                     /\ RLt(RMul(lastNode.duration, zoom), minBlockSize)
             THEN [st EXCEPT !.acc[Len(st.acc)] = Append(@, node)]
             ELSE [acc |-> Append(st.acc, <<node>>), open |-> TRUE]

makeCluster(nodes) ==
    LET duration == calcClusterDuration(nodes)
    IN  [start |-> nodes[1].start, end |-> RAdd(nodes[1].start, duration),
         duration |-> duration, type |-> nodes[1].type, color |-> nodes[1].color,
         level |-> nodes[1].level, nodes |-> nodes]

RECURSIVE clusterizeFlatTree(_, _, _, _, _, _)
clusterizeFlatTree(meta, zoom, start, end, stickDistance, minBlockSize) ==
    IF Len(meta) = 0 THEN <<>>
    ELSE LET groups == clusterizeNodes(meta[Len(meta)].nodes, zoom, start, end,
                                       stickDistance, minBlockSize).acc
         IN  clusterizeFlatTree(SubSeq(meta, 1, Len(meta) - 1), zoom, start, end,
                                stickDistance, minBlockSize)
             \o [i \in 1..Len(groups) |-> makeCluster(groups[i])]

\* re-clustering that keeps the clusters wider than MIN_CLUSTER_SIZE and
\* clusters again the others
RECURSIVE reclusterizeKeepingWide(_, _, _, _, _, _)
reclusterizeKeepingWide(clusters, zoom, start, end, stickDistance, minBlockSize) ==
    IF Len(clusters) = 0 THEN <<>>
    ELSE LET acc == reclusterizeKeepingWide(SubSeq(clusters, 1, Len(clusters) - 1),
                        zoom, start, end, stickDistance, minBlockSize)
             cluster == clusters[Len(clusters)]
         IN  IF ~checkClusterTimeboundNesting(cluster, start, end) THEN acc
             ELSE IF RGt(RMul(cluster.duration, zoom), MIN_CLUSTER_SIZE)
             THEN Append(acc, cluster)
             ELSE acc \o clusterizeFlatTree(<<[nodes |-> cluster.nodes]>>, zoom, start, end,
                                            stickDistance, minBlockSize)

RECURSIVE reclusterizeClusteredFlatTree(_, _, _, _, _, _)
reclusterizeClusteredFlatTree(clusters, zoom, start, end, stickDistance, minBlockSize) ==
    IF Len(clusters) = 0 THEN <<>>
    ELSE LET acc == reclusterizeClusteredFlatTree(SubSeq(clusters, 1, Len(clusters) - 1),
                        zoom, start, end, stickDistance, minBlockSize)
             cluster == clusters[Len(clusters)]
         IN  IF ~checkClusterTimeboundNesting(cluster, start, end) THEN acc
             ELSE IF RLe(RMul(cluster.duration, zoom), MIN_CLUSTER_SIZE)
             THEN Append(acc, cluster)
             ELSE acc \o clusterizeFlatTree(<<[nodes |-> cluster.nodes]>>, zoom, start, end,
                                            stickDistance, minBlockSize)

----------------------------------------------------------------------------
(* Hit regions.  A region is [type, data, x, y, w, h, id]; id is the id of *)
(* the SeparatedInteractionsEngine (the panel) that owns it.  `data` is    *)
(* [side, nodes]: the knob's 'left' / 'right', or the cluster's nodes.     *)
(* NoRegion stands for null.                                               *)

NoData == [side |-> "", nodes |-> <<>>]
NoRegion == [type |-> "null", data |-> NoData, x |-> R0, y |-> R0, w |-> R0, h |-> R0, id |-> 0]

Region(type, data, x, y, w, h, id) ==
    [type |-> type, data |-> data, x |-> x, y |-> y, w |-> w, h |-> h, id |-> id]

\* SeparatedInteractionsEngine.addHitRegion: push
addHitRegion(w, i, type, data, x, y, ww, h) ==
    [w EXCEPT !.hr[i] = Append(@, Region(type, data, x, y, ww, h, i))]

clearHitRegions(w, i) == [w EXCEPT !.hr[i] = <<>>]

\* the band test of resend and of getHoveredRegion
inBand(w, i) ==
    /\ w.ch[i].position <= w.ie.mouse.y
    /\ w.ch[i].height + w.ch[i].position >= w.ie.mouse.y

\* Array.find over the panels: the first whose band holds mouse.y, 0 for undefined
findInstance(w) ==
    IF \E i \in DOMAIN w.ch : inBand(w, i)
    THEN CHOOSE i \in DOMAIN w.ch : inBand(w, i) /\ \A j \in 1..(i - 1) : ~inBand(w, j)
    ELSE 0

regionContains(w, r, offsetTop) ==
    /\ RGe(R(w.ie.mouse.x), r.x)
    /\ RLe(R(w.ie.mouse.x), RAdd(r.x, r.w))
    /\ RGe(R(w.ie.mouse.y), RAdd(r.y, R(offsetTop)))
    /\ RLe(R(w.ie.mouse.y), RAdd(RAdd(r.y, r.h), R(offsetTop)))

\* a scan that keeps the last region containing the mouse
findRegionLast(w, regions, offsetTop) ==
    IF \E k \in DOMAIN regions : regionContains(w, regions[k], offsetTop)
    THEN regions[CHOOSE k \in DOMAIN regions :
                    /\ regionContains(w, regions[k], offsetTop)
                    /\ \A j \in (k + 1)..Len(regions) :
                           ~regionContains(w, regions[j], offsetTop)]
    ELSE NoRegion

\* Array.find over a panel's regions: the first that contains the mouse
findRegion(w, regions, offsetTop) ==
    IF \E k \in DOMAIN regions : regionContains(w, regions[k], offsetTop)
    THEN regions[CHOOSE k \in DOMAIN regions :
                    /\ regionContains(w, regions[k], offsetTop)
                    /\ \A j \in 1..(k - 1) : ~regionContains(w, regions[j], offsetTop)]
    ELSE NoRegion

\* getHoveredRegion that tests the panel's regions without offsetTop
getHoveredRegionUnshifted(w) ==
    LET hoveredInstance == findInstance(w)
    IN  IF hoveredInstance # 0
        THEN findRegion(w, w.hr[hoveredInstance], 0)
        ELSE NoRegion

\* InteractionsEngine.getHoveredRegion.  The root's own hitRegions are
\* never filled (every plugin registers with its panel), so the search
\* starts at the panels; it stores hoveredInstance as a side effect.
getHoveredRegion(w) ==
    LET hoveredInstance == findInstance(w)
    IN  IF hoveredInstance # 0
        THEN findRegion(w, w.hr[hoveredInstance], w.ch[hoveredInstance].position)
        ELSE NoRegion

setHoveredInstance(w) == [w EXCEPT !.ie.hoveredInstance = findInstance(w)]

\* InteractionsEngine.clearCursor: only its call of getHoveredRegion changes state
clearCursor(w) == setHoveredInstance(w)

----------------------------------------------------------------------------
(* Frames: RenderEngine.render / partialRender schedule callbacks *)

NoPrepare == [set |-> FALSE, width |-> 0, height |-> 0]

\* w.fr.pendingGlobal and w.fr.pendingPartial count the callbacks of each
\* kind in the browser's animation-frame queue: requestAnimationFrame adds
\* one, cancelAnimationFrame takes out the one its handle names, and the
\* browser takes one out to run it.  The two last...AnimationFrame fields are
\* the handles the engine keeps (FALSE for null).

\* render that forgets to cancel the partial frame it supersedes
renderUncancelled(w, prepare) ==
    [w EXCEPT !.fr.requestedRenders = <<>>,
              !.fr.lastPartialAnimationFrame = FALSE,
              !.fr.lastGlobalAnimationFrame = TRUE,
              !.fr.pendingGlobal = IF w.fr.lastGlobalAnimationFrame THEN @ ELSE @ + 1,
              !.fr.prepare = IF w.fr.lastGlobalAnimationFrame THEN @ ELSE prepare]

render(w, prepare) ==
    [w EXCEPT !.fr.requestedRenders = <<>>,
              !.fr.pendingPartial = IF w.fr.lastPartialAnimationFrame THEN @ - 1 ELSE @,
              !.fr.lastPartialAnimationFrame = FALSE,
              !.fr.lastGlobalAnimationFrame = TRUE,
              !.fr.pendingGlobal = IF w.fr.lastGlobalAnimationFrame THEN @ ELSE @ + 1,
              !.fr.prepare = IF w.fr.lastGlobalAnimationFrame THEN @ ELSE prepare]

\* partialRender that asks for a frame whether or not one is pending
partialRenderAgain(w, id) ==
    [w EXCEPT !.fr.requestedRenders = IF id # 0 THEN Append(@, id) ELSE @,
              !.fr.pendingPartial = @ + 1,
              !.fr.lastPartialAnimationFrame = TRUE]

\* partialRender(id) with a panel id (0-based in the code), or partialRender()
partialRender(w, id) ==
    [w EXCEPT !.fr.requestedRenders = IF id # 0 THEN Append(@, id) ELSE @,
              !.fr.pendingPartial = IF w.fr.lastPartialAnimationFrame THEN @ ELSE @ + 1,
              !.fr.lastPartialAnimationFrame = TRUE]

----------------------------------------------------------------------------
(* Events of the root dispatcher.  w.ev logs them in order.                *)

Event(name, region, isClick, deltaX, deltaY) ==
    [name |-> name, region |-> region, isClick |-> isClick,
     deltaX |-> deltaX, deltaY |-> deltaY]

log(w, name, region) == [w EXCEPT !.ev = Append(@, Event(name, region, FALSE, R0, 0))]

\* does panel i's SeparatedInteractionsEngine pass a down/up/move/click/select on
forwarded(w, i, region) == (region = NoRegion \/ region.id = i) /\ inBand(w, i)

----------------------------------------------------------------------------
(* TimeframeSelectorPlugin.  this.renderEngine is children[SELECTOR]; its  *)
(* setZoom / setPositionX are BasicRenderEngine's and change that panel    *)
(* only.  w.sel.off is the plugin's offscreenRenderEngine.                 *)

getLeftKnobPosition(c) == RMul(RSub(c.positionX, c.min), getInitialZoom(c))

getRightKnobPosition(c) ==
    RMul(RAdd(RSub(c.positionX, c.min), getRealView(c)), getInitialZoom(c))

setLeftKnobPosition(w, mouseX) ==
    LET c == w.ch[SELECTOR]
        maxPosition == getRightKnobPosition(c)
        realView == getRealView(c)
        x == RAdd(pixelToTime(w.sel.off, mouseX), c.min)
        delta == RSub(x, c.positionX)
        zoom == RDiv(R(c.width), RSub(realView, delta))
    IN  IF RLt(mouseX, RSub(maxPosition, R1))
        THEN [w EXCEPT !.ch[SELECTOR] = BasicSetZoom(BasicSetPositionX(c, x), zoom)]
        ELSE w

setRightKnobPosition(w, mouseX) ==
    LET c == w.ch[SELECTOR]
        minPosition == getLeftKnobPosition(c)
        realView == getRealView(c)
        delta == RSub(RAdd(c.positionX, realView),
                      RAdd(pixelToTime(w.sel.off, mouseX), c.min))
        zoom == RDiv(R(c.width), RSub(realView, delta))
    IN  IF RGt(mouseX, RAdd(minPosition, R1))
        THEN [w EXCEPT !.ch[SELECTOR] = BasicSetZoom(c, zoom)]
        ELSE w

applyChanges(w) ==
    render(SetZoom(SetPositionX(w, w.ch[SELECTOR].positionX), w.ch[SELECTOR].zoom),
           NoPrepare)

selHandleMouseDown(w, region) ==
    IF region = NoRegion THEN w
    ELSE IF region.type = "timeframeKnob"
    THEN IF region.data.side = "left"
         THEN [w EXCEPT !.sel.leftKnobMoving = TRUE]
         ELSE [w EXCEPT !.sel.rightKnobMoving = TRUE]
    ELSE IF region.type = "timeframeArea"
    THEN [w EXCEPT !.sel.selectingActive = TRUE,
                   !.sel.startSelectingPosition = w.ie.mouse.x]
    ELSE w

\* the click branch of handleMouseUp: the nearer knob goes to the mouse
selClickKnob(w) ==
    LET c == w.ch[SELECTOR]
        mouseX == R(w.ie.mouse.x)
        rightKnobPosition == getRightKnobPosition(c)
        leftKnobPosition == getLeftKnobPosition(c)
    IN  IF RGt(mouseX, rightKnobPosition) THEN setRightKnobPosition(w, mouseX)
        ELSE IF RGt(mouseX, leftKnobPosition) /\ RLt(mouseX, rightKnobPosition)
        THEN IF RGt(RSub(mouseX, leftKnobPosition), RSub(rightKnobPosition, mouseX))
             THEN setRightKnobPosition(w, mouseX)
             ELSE setLeftKnobPosition(w, mouseX)
        ELSE setLeftKnobPosition(w, mouseX)

selIsDoubleClick(w) == w.sel.timeout

selHandleMouseUp(w, isClick) ==
    LET isDoubleClick == selIsDoubleClick(w)
        released(v) == clearCursor([v EXCEPT !.sel.timeout = TRUE,
                                             !.sel.leftKnobMoving = FALSE,
                                             !.sel.rightKnobMoving = FALSE])
        selected(v) == IF v.sel.selectingActive /\ ~isClick THEN applyChanges(v) ELSE v
        idle(v) == [v EXCEPT !.sel.selectingActive = FALSE]
        clicked(v) == IF isClick /\ ~isDoubleClick THEN applyChanges(selClickKnob(v)) ELSE v
        reset(v) ==
            IF isDoubleClick
            THEN render(SetPositionX(SetZoom(v, getInitialZoom(v.ch[SELECTOR])),
                                     v.ch[SELECTOR].min), NoPrepare)
            ELSE v
    IN  reset(clicked(idle(selected(released(w)))))

selHandleMouseMove(w) ==
    LET mouseX == R(w.ie.mouse.x)
        left(v) == IF v.sel.leftKnobMoving
                   THEN applyChanges(setLeftKnobPosition(v, mouseX)) ELSE v
        right(v) == IF v.sel.rightKnobMoving
                    THEN applyChanges(setRightKnobPosition(v, mouseX)) ELSE v
        start == R(w.sel.startSelectingPosition)
        selecting(v) ==
            IF v.sel.selectingActive
            THEN partialRender(
                     IF RGe(start, mouseX)
                     THEN setRightKnobPosition(setLeftKnobPosition(v, mouseX), start)
                     ELSE setLeftKnobPosition(setRightKnobPosition(v, mouseX), start),
                     SELECTOR)
            ELSE v
    IN  selecting(right(left(w)))

\* TimeframeSelectorPlugin.render: renderTimeframe's three regions, then
\* the 'timeframe' region over the whole panel
selRender(w) ==
    LET offscreen(v) == IF v.sel.shouldRender
                        THEN offscreenRender([v EXCEPT !.sel.shouldRender = FALSE]) ELSE v
        c == w.ch[SELECTOR]
        relativePositionX == RSub(c.positionX, c.min)
        currentLeftPosition == RMul(relativePositionX, getInitialZoom(c))
        currentRightPosition ==
            RMul(RAdd(relativePositionX, getRealView(c)), getInitialZoom(c))
        currentLeftKnobPosition == RSub(currentLeftPosition, Rat(KnobSize, 2))
        currentRightKnobPosition == RSub(currentRightPosition, Rat(KnobSize, 2))
        knobHeight == Rat(c.height, 3)
        leftKnob(v) ==
            addHitRegion(v, SELECTOR, "timeframeKnob", [NoData EXCEPT !.side = "left"],
                         currentLeftKnobPosition, R0, R(KnobSize), knobHeight)
        rightKnob(v) ==
            addHitRegion(v, SELECTOR, "timeframeKnob", [NoData EXCEPT !.side = "right"],
                         currentRightKnobPosition, R0, R(KnobSize), knobHeight)
        area(v) == addHitRegion(v, SELECTOR, "timeframeArea", NoData,
                                R0, R0, R(c.width), R(c.height))
        timeframe(v) == addHitRegion(v, SELECTOR, "timeframe", NoData,
                                     R0, R0, R(c.width), R(pluginHeight(w, SELECTOR)))
    IN  timeframe(area(rightKnob(leftKnob(offscreen(w)))))

----------------------------------------------------------------------------
(* FlameChartPlugin.  this.renderEngine is children[FLAME].                *)

NoNode == [start |-> R0, duration |-> R0, type |-> "", color |-> "", end |-> R0,
           parent |-> 0 - 1, level |-> 0 - 1, index |-> 0 - 1]

calcRect(w, start, duration, level) ==
    LET c == w.ch[FLAME]
        ww == RMul(duration, c.zoom)
    IN  [x |-> timeToPosition(c, start),
         y |-> R(level * (BlockHeight + 1) - w.fc.positionY),
         w |-> IF RLe(ww, <<1, 10>>) THEN <<1, 10>>
               ELSE IF RGe(ww, R(3)) THEN RSub(ww, R1)
               ELSE RSub(ww, RDiv(ww, R(3)))]

\* SeparatedInteractionsEngine.getMouse of the flame chart's panel
getMouse(w) == [x |-> R(w.ie.mouse.x), y |-> R(w.ie.mouse.y - w.ch[FLAME].position)]

nodeUnderMouse(w, node) ==
    LET rect == calcRect(w, node.start, node.duration, node.level)
        mouse == getMouse(w)
    IN  /\ RGe(mouse.x, rect.x) /\ RLe(mouse.x, RAdd(rect.x, rect.w))
        /\ RGe(mouse.y, rect.y) /\ RLe(mouse.y, RAdd(rect.y, R(BlockHeight)))

findNodeInCluster(w, region) ==
    LET nodes == region.data.nodes
    IN  IF region # NoRegion /\ region.type = "cluster"
           /\ \E k \in DOMAIN nodes : nodeUnderMouse(w, nodes[k])
        THEN nodes[CHOOSE k \in DOMAIN nodes :
                       /\ nodeUnderMouse(w, nodes[k])
                       /\ \A j \in 1..(k - 1) : ~nodeUnderMouse(w, nodes[j])]
        ELSE NoNode

fcHandlePositionChange(w, deltaX, deltaY) ==
    LET startPositionY == w.fc.positionY
        startPositionX == w.re.positionX
        scrolled == [w EXCEPT !.fc.positionY =
                        IF startPositionY + deltaY >= 0 THEN startPositionY + deltaY ELSE 0]
        redraw(v) ==
            IF startPositionX # v.re.positionX \/ startPositionY # v.fc.positionY
            THEN render(v, NoPrepare)
            ELSE v
    IN  redraw(TryToChangePosition(scrolled, deltaX))

\* findNodeInCluster makes a new object for every node found, so
\* this.selectedRegion !== selectedRegion fails only for null and null
fcHandleSelect(w, region) ==
    LET selectedRegion == findNodeInCluster(w, region)
    IN  IF w.fc.selectedRegion = NoNode /\ selectedRegion = NoNode THEN w
        ELSE partialRender([w EXCEPT !.fc.selectedRegion = selectedRegion], FLAME)

fcHandleMouseUp(w) == clearCursor(w)

fcReclusterize(w) ==
    LET c == w.ch[FLAME]
    IN  [w EXCEPT !.fc.actualClusterizedFlatTree =
            reclusterizeClusteredFlatTree(w.fc.initialClusterizedFlatTree, c.zoom,
                c.positionX, RAdd(c.positionX, getRealView(c)),
                STICK_DISTANCE, MIN_BLOCK_SIZE)]

\* processCluster's test, with the width and height render() read
onScreen(rect, width, height) ==
    /\ RGt(RAdd(rect.x, rect.w), R0) /\ RLt(rect.x, R(width))
    /\ RGt(RAdd(rect.y, R(BlockHeight)), R0) /\ RLt(rect.y, R(height))

RECURSIVE fcAddRegions(_, _, _, _, _)
fcAddRegions(w, clusters, width, height, mouseRowOnly) ==
    IF Len(clusters) = 0 THEN w
    ELSE LET w1 == fcAddRegions(w, SubSeq(clusters, 1, Len(clusters) - 1),
                                width, height, mouseRowOnly)
             cluster == clusters[Len(clusters)]
             rect == calcRect(w, cluster.start, cluster.duration, cluster.level)
             mouse == getMouse(w)
             inRow == RGe(mouse.y, rect.y) /\ RLe(mouse.y, RAdd(rect.y, R(BlockHeight)))
         IN  IF onScreen(rect, width, height) /\ (~mouseRowOnly \/ inRow)
             THEN addHitRegion(w1, FLAME, "cluster", [NoData EXCEPT !.nodes = cluster.nodes],
                               rect.x, rect.y, rect.w, R(BlockHeight))
             ELSE w1

\* FlameChartPlugin.render without clearTimeout
fcRenderUncancelled(w) ==
    LET mouseRow(v) == fcAddRegions(v, v.fc.actualClusterizedFlatTree,
                                    v.ch[FLAME].width, v.ch[FLAME].height, TRUE)
        later(v) == [v EXCEPT !.fc.renderChartTimeout =
                        [pending |-> TRUE, width |-> v.ch[FLAME].width,
                         height |-> v.ch[FLAME].height, timers |-> @.timers + 1]]
    IN  later(mouseRow(fcReclusterize(w)))

\* FlameChartPlugin.render: re-cluster, register the clusters of the mouse's
\* row at once and schedule the rebuild of all regions; `timers` counts the
\* timeouts set and neither cleared nor fired
fcRender(w) ==
    LET mouseRow(v) == fcAddRegions(v, v.fc.actualClusterizedFlatTree,
                                    v.ch[FLAME].width, v.ch[FLAME].height, TRUE)
        later(v) == [v EXCEPT !.fc.renderChartTimeout =
                        [pending |-> TRUE, width |-> v.ch[FLAME].width,
                         height |-> v.ch[FLAME].height,
                         timers |-> IF @.pending THEN @.timers ELSE @.timers + 1]]
    IN  later(mouseRow(fcReclusterize(w)))

\* the callback of renderChartTimeout
fcRebuild(w) ==
    LET t == w.fc.renderChartTimeout
        all(v) == fcAddRegions(v, v.fc.actualClusterizedFlatTree, t.width, t.height, FALSE)
        done(v) == [v EXCEPT !.fc.renderChartTimeout.pending = FALSE,
                             !.fc.renderChartTimeout.timers = @ - 1]
    IN  done(all(clearHitRegions(w, FLAME)))

\* RenderEngine.calcMinMax over the plugins that have a numeric min / max:
\* the selector and the flame chart (the time grid plugin has none)
calcMinMax(w) ==
    setMinMax(w, IF RLt(w.sel.min, w.fc.min) THEN w.sel.min ELSE w.fc.min,
                 IF RGt(w.sel.max, w.fc.max) THEN w.sel.max ELSE w.fc.max)

fcInitData(w) ==
    LET clustered(meta) ==
            [w EXCEPT !.fc.metaClusterizedFlatTree = meta,
                      !.fc.initialClusterizedFlatTree =
                          clusterizeFlatTree(meta, w.ch[FLAME].zoom, w.fc.min, w.fc.max,
                                             STICK_DISTANCE, MIN_BLOCK_SIZE)]
    IN  fcReclusterize(clustered(metaClusterizeFlatTree(w.fc.flatTree)))

fcParseData(w, data) ==
    LET parsed(flat, mm) == [w EXCEPT !.fc.data = data, !.fc.flatTree = flat,
                                      !.fc.min = mm.min, !.fc.max = mm.max]
        measured(flat) == parsed(flat, getFlatTreeMinMax(flat))
    IN  measured(flatTree(data))

\* FlameChartPlugin.setData
fcSetData(w, data) ==
    LET reset(v) == [v EXCEPT !.fc.positionY = 0, !.fc.selectedRegion = NoNode]
    IN  render(ResetView(calcMinMax(reset(fcInitData(fcParseData(w, data))))), NoPrepare)

\* TimeframeSelectorPlugin.setFlameChartNodes: makeFlameChartDots takes the
\* extent of the new data, then the off-screen chart is redrawn
selSetFlameChartNodes(w, data) ==
    LET dots(mm) == [w EXCEPT !.sel.min = mm.min, !.sel.max = mm.max]
    IN  offscreenRender(dots(getFlatTreeMinMax(flatTree(data))))

----------------------------------------------------------------------------
(* InteractionsEngine: the handlers of the canvas' DOM events.  Listeners  *)
(* run in the order of registration: panel 1, 2, 3.  Of the plugins here   *)
(* the selector listens to down, up, move; the flame chart to up, select   *)
(* and change-position.  (The plugins' 'hover' listeners only store what   *)
(* the tooltip shows.)                                                     *)

\* checkRegionHover without the clear it sends when the panel changes
checkRegionHoverUncleared(w) ==
    LET hoveredRegion == getHoveredRegion(w)
        enter(v) ==
            IF hoveredRegion # NoRegion
            THEN partialRender(log([v EXCEPT !.ie.hoveredRegion = hoveredRegion],
                                   "hover", hoveredRegion), 0)
            ELSE IF v.ie.hoveredRegion # NoRegion
            THEN partialRender(log([v EXCEPT !.ie.hoveredRegion = NoRegion],
                                   "hover", NoRegion), 0)
            ELSE v
    IN  enter(setHoveredInstance(w))

checkRegionHover(w) ==
    LET hoveredRegion == getHoveredRegion(w)
        leave(v) ==
            IF hoveredRegion # NoRegion /\ v.ie.hoveredRegion # NoRegion
               /\ hoveredRegion.id # v.ie.hoveredRegion.id
            THEN log(v, "hover", NoRegion) ELSE v
        enter(v) ==
            IF hoveredRegion # NoRegion
            THEN partialRender(log([v EXCEPT !.ie.hoveredRegion = hoveredRegion],
                                   "hover", hoveredRegion), 0)
            ELSE IF v.ie.hoveredRegion # NoRegion
            THEN partialRender(log([v EXCEPT !.ie.hoveredRegion = NoRegion],
                                   "hover", NoRegion), 0)
            ELSE v
    IN  enter(leave(setHoveredInstance(w)))

handleMouseDown(w) ==
    LET pressed == [w EXCEPT !.ie.moveActive = TRUE,
                             !.ie.mouseDownPosition =
                                 [set |-> TRUE, x |-> w.ie.mouse.x, y |-> w.ie.mouse.y],
                             !.ie.mouseDownHoveredInstance = w.ie.hoveredInstance]
        toSelector(v) == IF forwarded(v, SELECTOR, v.ie.hoveredRegion)
                         THEN selHandleMouseDown(v, v.ie.hoveredRegion) ELSE v
    IN  toSelector(log(pressed, "down", w.ie.hoveredRegion))

isClickNow(w) ==
    /\ w.ie.mouseDownPosition.set
    /\ w.ie.mouseDownPosition.x = w.ie.mouse.x
    /\ w.ie.mouseDownPosition.y = w.ie.mouse.y

\* InteractionsEngine.handleRegionHit and the 'select' listeners
handleRegionHit(w) ==
    LET selectedRegion == getHoveredRegion(w)
        toFlame(v) == IF forwarded(v, FLAME, selectedRegion)
                      THEN fcHandleSelect(v, selectedRegion) ELSE v
    IN  toFlame(log(setHoveredInstance(w), "select", selectedRegion))

\* handles mouseup and mouseleave
handleMouseUp(w) ==
    LET isClick == isClickNow(w)
        hit(v) == IF isClick THEN handleRegionHit(v) ELSE v
        up(v) == [v EXCEPT !.ev = Append(@, Event("up", v.ie.hoveredRegion, isClick, R0, 0))]
        toSelector(v) == IF forwarded(v, SELECTOR, v.ie.hoveredRegion)
                         THEN selHandleMouseUp(v, isClick) ELSE v
        toFlame(v) == IF forwarded(v, FLAME, v.ie.hoveredRegion)
                      THEN fcHandleMouseUp(v) ELSE v
        click(v) == IF isClick THEN log(v, "click", v.ie.hoveredRegion) ELSE v
    IN  click(toFlame(toSelector(up(hit([w EXCEPT !.ie.moveActive = FALSE])))))

\* handleMouseMove that does not ask whether the button is down
handleMouseMoveUnpressed(w, offsetX, offsetY) ==
    LET mouseDeltaY == w.ie.mouse.y - offsetY
        mouseDeltaX == RDiv(R(w.ie.mouse.x - offsetX), w.re.zoom)
        toFlame(v) == IF v.ie.mouseDownHoveredInstance = FLAME
                      THEN fcHandlePositionChange(v, mouseDeltaX, mouseDeltaY) ELSE v
        drag(v) ==
            IF mouseDeltaY # 0 \/ ~RIsZero(mouseDeltaX)
            THEN toFlame([v EXCEPT !.ev = Append(@,
                             Event("change-position", NoRegion, FALSE,
                                   mouseDeltaX, mouseDeltaY))])
            ELSE v
        at(v) == [v EXCEPT !.ie.mouse = [x |-> offsetX, y |-> offsetY]]
        move(v) == log(v, "move", v.ie.hoveredRegion)
        toSelector(v) == IF forwarded(v, SELECTOR, v.ie.hoveredRegion)
                         THEN selHandleMouseMove(v) ELSE v
    IN  toSelector(move(checkRegionHover(at(drag(w)))))

handleMouseMove(w, offsetX, offsetY) ==
    LET mouseDeltaY == w.ie.mouse.y - offsetY
        mouseDeltaX == RDiv(R(w.ie.mouse.x - offsetX), w.re.zoom)
        toFlame(v) == IF v.ie.mouseDownHoveredInstance = FLAME
                      THEN fcHandlePositionChange(v, mouseDeltaX, mouseDeltaY) ELSE v
        drag(v) ==
            IF v.ie.moveActive /\ (mouseDeltaY # 0 \/ ~RIsZero(mouseDeltaX))
            THEN toFlame([v EXCEPT !.ev = Append(@,
                             Event("change-position", NoRegion, FALSE,
                                   mouseDeltaX, mouseDeltaY))])
            ELSE v
        at(v) == [v EXCEPT !.ie.mouse = [x |-> offsetX, y |-> offsetY]]
        move(v) == log(v, "move", v.ie.hoveredRegion)
        toSelector(v) == IF forwarded(v, SELECTOR, v.ie.hoveredRegion)
                         THEN selHandleMouseMove(v) ELSE v
    IN  toSelector(move(checkRegionHover(at(drag(w)))))

handleMouseWheel(w, deltaX, deltaY) ==
    LET realView == getRealView(w.re)
        initialZoom == getInitialZoom(w.re)
        startPosition == w.re.positionX
        startZoom == w.re.zoom
        positionScrollDelta == RDiv(R(deltaX), w.re.zoom)
        requested == RMul(Rat(deltaY, 1000), w.re.zoom)
        zoomDelta(v) == IF RGe(RSub(v.re.zoom, requested), initialZoom)
                        THEN requested ELSE RSub(v.re.zoom, initialZoom)
        about(z) ==
            TryToChangePosition(z,
                RMul(RSub(realView, RDiv(R(z.re.width), z.re.zoom)),
                     Rat(z.ie.mouse.x, z.re.width)))
        zoomTo(v, zoom) == IF SetZoomAccepted(v, zoom) THEN about(SetZoom(v, zoom)) ELSE v
        zoomBy(v, delta) == IF ~RIsZero(delta) THEN zoomTo(v, RSub(v.re.zoom, delta)) ELSE v
        zoomed(v) == zoomBy(v, zoomDelta(v))
        redraw(v) == IF startPosition # v.re.positionX \/ startZoom # v.re.zoom
                     THEN render(v, NoPrepare) ELSE v
    IN  redraw(checkRegionHover(zoomed(TryToChangePosition(w, positionScrollDelta))))

----------------------------------------------------------------------------
(* The frame callbacks and timers *)

renderPlugin(w, i) ==
    LET draw(v) == IF v.ch[i].collapsed THEN v
                   ELSE IF i = SELECTOR THEN selRender(v)
                   ELSE IF i = FLAME THEN fcRender(v)
                   ELSE v
    IN  draw(clearHitRegions(w, i))

RECURSIVE renderPlugins(_, _)
renderPlugins(w, indexes) ==
    IF Len(indexes) = 0 THEN w
    ELSE renderPlugins(renderPlugin(w, Head(indexes)), Tail(indexes))

\* the callback render() hands to requestAnimationFrame
globalFrame(w) ==
    LET prepared(v) == IF v.fr.prepare.set
                       THEN resize(v, v.fr.prepare.width, v.fr.prepare.height) ELSE v
        plugins(v) == renderPlugins(v, [i \in 1..Len(v.ch) |-> i])
        done(v) == [v EXCEPT !.fr.lastGlobalAnimationFrame = FALSE, !.fr.prepare = NoPrepare]
        taken(v) == [v EXCEPT !.fr.pendingGlobal = @ - 1]
    IN  done(plugins(recalc(prepared(taken(w)))))

\* the callback partialRender() hands to requestAnimationFrame
partialFrame(w) ==
    LET done(v) == [v EXCEPT !.fr.requestedRenders = <<>>,
                             !.fr.lastPartialAnimationFrame = FALSE]
        taken(v) == [v EXCEPT !.fr.pendingPartial = @ - 1]
    IN  done(renderPlugins(taken(w), w.fr.requestedRenders))

----------------------------------------------------------------------------
(* FlameChartContainer / FlameChart: the public operations *)

containerSetZoom(w, start, end) ==
    render(SetZoom(SetPositionX(w, start), RDiv(R(w.re.width), RSub(end, start))),
           NoPrepare)

containerResize(w, width, height) ==
    render(w, [set |-> TRUE, width |-> width, height |-> height])

setFlameChartPositionX(w, x) == render(SetPositionX(w, x), NoPrepare)

setFlameChartPositionY(w, y) == render([w EXCEPT !.fc.positionY = y], NoPrepare)

setNodes(w, data) == selSetFlameChartNodes(fcSetData(w, data), data)

----------------------------------------------------------------------------
(* Inputs.  Times are in ticks; the canvas is Width x Height pixels.       *)

Width == 100
WideWidth == 200
Height == 200
MaxEvents == 6

Node(start, duration, type, children) ==
    [start |-> R(start), duration |-> R(duration), type |-> type, color |-> "",
     children |-> children]

\* one root with two children of one type (they share a meta-cluster)
Data1 == << Node(0, 40, "a", << Node(0, 20, "b", <<>>), Node(20, 20, "b", <<>>) >>) >>
\* another extent
Data2 == << Node(20, 60, "a", <<>>) >>
DataSets == {Data1, Data2}
\* a long root over a run of four narrow nodes that touch, and one far off
DataRun ==
    << Node(0, 400, "a", << Node(0, 1, "b", <<>>), Node(1, 1, "b", <<>>),
                            Node(2, 1, "b", <<>>), Node(3, 1, "b", <<>>),
                            Node(200, 1, "b", <<>>) >>) >>
\* three levels, two roots given out of order, cousins of one type
DataDeep ==
    << Node(20, 20, "a", << Node(30, 5, "c", << Node(31, 2, "d", <<>>) >>),
                            Node(20, 5, "b", <<>>) >>),
       Node(0, 10, "a", << Node(0, 4, "b", <<>>) >>) >>
\* roots of one type whose time ranges overlap
DataOverlap ==
    << Node(0, 100, "a", <<>>), Node(1, 1, "a", <<>>), Node(2, 100, "a", <<>>) >>
\* types a, b, a on one level
DataTypes ==
    << Node(0, 10, "a", <<>>), Node(10, 10, "b", <<>>), Node(20, 10, "a", <<>>) >>
Forests == {Data1, DataRun, DataDeep, DataOverlap, DataTypes}
\* zooms in pixels per unit of time: the whole of DataRun on 1 pixel, on
\* Width pixels, a run of narrow nodes wider than MIN_CLUSTER_SIZE, no
\* narrow node at all
ClusterZooms == {<<1, 400>>, <<1, 4>>, <<4, 5>>, <<4, 1>>}
\* visible windows [start, end]
ClusterWindows == {<<0, 400>>, <<50, 60>>, <<0, 3>>, <<2, 4>>}

MouseXs == {0, 50}
\* one row in the selector (its knobs), one in the time grid, one in the
\* flame chart's level 0
MouseYs == {10, 70, 90}
\* WheelEvent deltaX, deltaY: zoom in (x2), zoom out (/2), scroll both ways
Wheels == {<<0, 0 - 1000>>, <<0, 500>>, <<50, 0>>, <<0 - 50, 0>>}
\* FlameChartContainer.setZoom(start, end), in ticks: inside the extent, and
\* wider than the extent
ZoomRanges == {<<10, 30>>, <<0, 80>>}
PositionXs == {20, 60}
PositionYs == {17}
Sizes == {<<Width, Height>>, <<WideWidth, Height>>}

----------------------------------------------------------------------------
(* The state after `new FlameChart({ canvas, data })` *)

NewEngine(width, height) ==
    [zoom |-> R0, positionX |-> R0, min |-> R0, max |-> R0,
     width |-> width, height |-> height]

\* RenderEngine.makeInstance: an OffscreenRenderEngine of height 0, fitted
NewChild(root) ==
    LET e == [zoom |-> R0, positionX |-> R0, min |-> R0, max |-> R0,
              width |-> root.width, height |-> 0, position |-> 0,
              collapsed |-> FALSE, flexible |-> FALSE]
    IN  BasicResetView(BasicSetMinMax(e, root.min, root.max))

\* OffscreenRenderEngine.makeChild of the selector's panel
makeChild(c) ==
    BasicResetView(BasicSetMinMax(NewEngine(c.width, c.height), c.min, c.max))

Construct(data, width, height) ==
    LET root == [zoom |-> R0, positionX |-> R0, min |-> R0, max |-> R0,
                 width |-> width, height |-> height, freeSpace |-> 0,
                 plugins |-> ChartPlugins]
        w0 == [re |-> root,
               ch |-> [i \in 1..3 |-> NewChild(root)],
               tg |-> [accuracy |-> 0],
               ie |-> [mouse |-> [x |-> 0, y |-> 0], moveActive |-> FALSE,
                       mouseDownPosition |-> [set |-> FALSE, x |-> 0, y |-> 0],
                       mouseDownHoveredInstance |-> 0, hoveredInstance |-> 0,
                       hoveredRegion |-> NoRegion],
               hr |-> [i \in 1..3 |-> <<>>],
               sel |-> [leftKnobMoving |-> FALSE, rightKnobMoving |-> FALSE,
                        selectingActive |-> FALSE, startSelectingPosition |-> 0,
                        timeout |-> FALSE, min |-> R0, max |-> R0,
                        shouldRender |-> TRUE, off |-> NewEngine(width, 0)],
               fc |-> [data |-> <<>>, flatTree |-> <<>>, min |-> R0, max |-> R0,
                       positionY |-> 0, selectedRegion |-> NoNode,
                       metaClusterizedFlatTree |-> <<>>,
                       initialClusterizedFlatTree |-> <<>>,
                       actualClusterizedFlatTree |-> <<>>,
                       renderChartTimeout |->
                           [pending |-> FALSE, width |-> 0, height |-> 0, timers |-> 0]],
               fr |-> [lastGlobalAnimationFrame |-> FALSE, prepare |-> NoPrepare,
                       lastPartialAnimationFrame |-> FALSE, requestedRenders |-> <<>>,
                       pendingGlobal |-> 0, pendingPartial |-> 0],
               ev |-> <<>>]
        \* calcMinMax: only the flame chart has a min / max yet
        fit(v) == [v EXCEPT !.re = BasicSetMinMax(@, v.fc.min, v.fc.max),
                            !.ch = [i \in 1..3 |-> BasicSetMinMax(v.ch[i], v.fc.min, v.fc.max)]]
        \* TimeframeSelectorPlugin.postInit
        postInit(v) ==
            selSetFlameChartNodes([v EXCEPT !.sel.off = makeChild(v.ch[SELECTOR])], data)
        \* new FlameChartPlugin({ data }), its init(), and the rest of the constructor
    IN  render(postInit(recalc(recalcChildrenSizes(ResetView(
                   fit(fcInitData(fcParseData(w0, data))))))), NoPrepare)
----------------------------------------------------------------------------
(* TogglePlugin: plugins[t] is a toggle, children[t + 1] the panel its     *)
(* button folds, children[t - 1] the panel its knob resizes.               *)

ToggleStylesHeight == 16
WaterfallDefaultHeight == 68

\* new FlameChart({ canvas, data, waterfall }): the toggles come with the
\* two of them
WaterfallChartPlugins ==
    <<Plugin("timeframeSelectorPlugin", SelectorHeight),
      Plugin("timeGridPlugin", CharHeight + 10),
      Plugin("togglePlugin", ToggleStylesHeight + 1),
      Plugin("waterfallPlugin", WaterfallDefaultHeight),
      Plugin("togglePlugin", ToggleStylesHeight + 1),
      Plugin("flameChartPlugin", 0)>>

\* new FlameChartContainer({ canvas, plugins }) with two flame charts, each
\* under its toggle
TwoChartsPlugins ==
    <<Plugin("timeGridPlugin", CharHeight + 10),
      Plugin("togglePlugin", ToggleStylesHeight + 1),
      Plugin("flameChartPlugin", 0),
      Plugin("togglePlugin", ToggleStylesHeight + 1),
      Plugin("flameChartPlugin", 0)>>

isToggle(w, t) == w.re.plugins[t].name = "togglePlugin"

\* OffscreenRenderEngine.collapse / expand of panel i
collapse(w, i) == [w EXCEPT !.ch[i].collapsed = TRUE]

expand(w, i) == [w EXCEPT !.ch[i].collapsed = FALSE]

\* OffscreenRenderEngine.resize({ height }) of panel i, called by a plugin:
\* the root allocates again when the height changed, and the panel's child,
\* if it has one, takes the height asked for
resizePanel(w, i, height) ==
    LET sized == IF w.ch[i].height # height
                 THEN recalcChildrenSizes([w EXCEPT !.ch[i].height = height])
                 ELSE w
    IN  IF w.re.plugins[i].name = "timeframeSelectorPlugin" /\ sized.sel.off.height # height
        THEN recalcChildrenSizes(offscreenRender([sized EXCEPT !.sel.off.height = height]))
        ELSE sized

\* TogglePlugin.init: nextEngine.setFlexible()
toggleInit(w, t) == [w EXCEPT !.ch[t + 1].flexible = TRUE]

\* the toggle's 'click' listener, for a click on its own button
toggleClick(w, t) ==
    render(recalcChildrenSizes(IF w.ch[t + 1].collapsed THEN expand(w, t + 1)
                               ELSE collapse(w, t + 1)),
           NoPrepare)

\* the toggle's 'down' listener, for a press on its own knob
toggleDown(w, t) ==
    [w EXCEPT !.re.plugins[t].resizeActive = TRUE,
              !.re.plugins[t].resizeStartHeight = w.ch[t - 1].height,
              !.re.plugins[t].resizeStartPosition = w.ie.mouse.y]

\* the toggle's listener of the root dispatcher's 'move'
toggleMove(w, t) ==
    LET plugin == w.re.plugins[t]
        prev == t - 1
        newPosition == plugin.resizeStartHeight - (plugin.resizeStartPosition - w.ie.mouse.y)
    IN  IF plugin.resizeActive /\ w.ch[prev].flexible
        THEN render(IF newPosition <= 0
                    THEN resizePanel(collapse(w, prev), prev, 0)
                    ELSE resizePanel(IF w.ch[prev].collapsed THEN expand(w, prev) ELSE w,
                                     prev, newPosition),
                    NoPrepare)
        ELSE w

\* the toggle's listener of the root dispatcher's 'up'
toggleUp(w, t) == [w EXCEPT !.re.plugins[t].resizeActive = FALSE]

\* plugins.forEach(plugin.init), as far as the toggles go
RECURSIVE initToggles(_, _)
initToggles(w, t) ==
    IF t > Len(w.re.plugins) THEN w
    ELSE initToggles(IF isToggle(w, t) THEN toggleInit(w, t) ELSE w, t + 1)

\* emit('move') and emit('up') of the root dispatcher: the listeners the
\* toggles registered run in the order of the plugins
RECURSIVE moveToggles(_, _)
moveToggles(w, t) ==
    IF t > Len(w.re.plugins) THEN w
    ELSE moveToggles(IF isToggle(w, t) THEN toggleMove(w, t) ELSE w, t + 1)

RECURSIVE upToggles(_, _)
upToggles(w, t) ==
    IF t > Len(w.re.plugins) THEN w
    ELSE upToggles(IF isToggle(w, t) THEN toggleUp(w, t) ELSE w, t + 1)

\* the FlameChartContainer constructor for a list of plugins: a panel for
\* each plugin, the plugins' init, and the first allocation.  The data and
\* the viewport are those of the chart Construct builds.
ConstructContainer(plugins, width, height) ==
    LET chart == Construct(Data1, width, height)
        root == [chart.re EXCEPT !.plugins = plugins, !.freeSpace = 0]
        w0 == [chart EXCEPT !.re = root,
                            !.ch = [i \in 1..Len(plugins) |-> NewChild(root)],
                            !.hr = [i \in 1..Len(plugins) |-> <<>>]]
    IN  render(recalcChildrenSizes(initToggles(w0, 1)), NoPrepare)

----------------------------------------------------------------------------
(* The state machine.  `ev` holds what the handler that ran last emitted.  *)
(* Besides the program's state there is one history variable, `hist`:      *)
(*   events        how many events and calls the page has delivered        *)
(*   pressed       a mousedown came, and no mouseup or mouseleave since    *)
(*   moved         a mousemove to another position came after the last     *)
(*                 mousedown                                               *)
(*   prevHover     the region of the last 'hover' emitted before the       *)
(*                 handler that ran last (NoRegion for null and for none)  *)
(*   armedByClick  the up that set the selector's pending timeout was a    *)
(*                 click                                                   *)
(*   secondClick   the handler that ran last delivered a click to the      *)
(*                 selector while the timeout a click had set was pending  *)
(*   isDoubleClick the handler that ran last was the selector's            *)
(*                 handleMouseUp, with isDoubleClick                       *)
(*   rendered      the operation that ran last was the container's render  *)
(*   superseded    ... and a partial frame was in the queue when it began  *)
(*   asked         the size of the last FlameChartContainer.resize call    *)

VARIABLES re, ch, tg, ie, hr, sel, fc, fr, ev, hist

vars == <<re, ch, tg, ie, hr, sel, fc, fr, ev, hist>>

world ==
    [re |-> re, ch |-> ch, tg |-> tg, ie |-> ie, hr |-> hr, sel |-> sel,
     fc |-> fc, fr |-> fr, ev |-> <<>>]

Becomes(w, h) ==
    /\ re' = w.re /\ ch' = w.ch /\ tg' = w.tg /\ ie' = w.ie /\ hr' = w.hr
    /\ sel' = w.sel /\ fc' = w.fc /\ fr' = w.fr /\ ev' = w.ev
    /\ hist' = h

hovers(events) == SelectSeq(events, LAMBDA e : e.name = "hover")

lastHover ==
    IF Len(hovers(ev)) > 0 THEN hovers(ev)[Len(hovers(ev))].region ELSE hist.prevHover

\* the history after a frame or a timer, and after an event or a call
Quiet == [hist EXCEPT !.isDoubleClick = FALSE, !.secondClick = FALSE,
                      !.prevHover = lastHover,
                      !.rendered = FALSE, !.superseded = FALSE]

Counted == [Quiet EXCEPT !.events = @ + 1]

MayDeliver == hist.events < MaxEvents

Init ==
    LET w == Construct(Data1, Width, Height)
    IN  /\ re = w.re /\ ch = w.ch /\ tg = w.tg /\ ie = w.ie /\ hr = w.hr
        /\ sel = w.sel /\ fc = w.fc /\ fr = w.fr /\ ev = <<>>
        /\ hist = [events |-> 0, pressed |-> FALSE, moved |-> FALSE,
                   prevHover |-> NoRegion, armedByClick |-> FALSE,
                   secondClick |-> FALSE, isDoubleClick |-> FALSE,
                   rendered |-> FALSE, superseded |-> FALSE,
                   asked |-> NoPrepare]

MouseMove ==
    \E x \in MouseXs, y \in MouseYs :
        /\ MayDeliver
        /\ Becomes(handleMouseMove(world, x, y),
                   [Counted EXCEPT !.moved = @ \/ x # ie.mouse.x \/ y # ie.mouse.y])

MouseDown ==
    /\ MayDeliver
    /\ Becomes(handleMouseDown(world), [Counted EXCEPT !.moved = FALSE, !.pressed = TRUE])

\* what the history records of a mouseup / mouseleave
upHistory ==
    LET toSelector == forwarded(world, SELECTOR, ie.hoveredRegion)
    IN  [Counted EXCEPT !.pressed = FALSE,
                        !.isDoubleClick = toSelector /\ selIsDoubleClick(world),
                        !.secondClick = /\ toSelector /\ isClickNow(world)
                                        /\ sel.timeout /\ hist.armedByClick,
                        !.armedByClick = IF toSelector THEN isClickNow(world) ELSE @]

MouseUp ==
    /\ MayDeliver
    /\ Becomes(handleMouseUp(world), upHistory)

MouseLeave ==
    /\ MayDeliver
    /\ Becomes(handleMouseUp(world), upHistory)

MouseWheel ==
    \E d \in Wheels :
        /\ MayDeliver
        /\ Becomes(handleMouseWheel(world, d[1], d[2]), Counted)

GlobalFrame ==
    /\ fr.pendingGlobal > 0
    /\ Becomes(globalFrame(world), Quiet)

PartialFrame ==
    /\ fr.pendingPartial > 0
    /\ Becomes(partialFrame(world), Quiet)

\* the timer FlameChartPlugin.render sets
RebuildTimeout ==
    /\ fc.renderChartTimeout.pending
    /\ Becomes(fcRebuild(world), Quiet)

\* the timer TimeframeSelectorPlugin.handleMouseUp sets
DoubleClickTimeout ==
    /\ sel.timeout
    /\ Becomes([world EXCEPT !.sel.timeout = FALSE],
               [Quiet EXCEPT !.armedByClick = FALSE])

ContainerSetZoom ==
    \E r \in ZoomRanges :
        MayDeliver /\ Becomes(containerSetZoom(world, R(r[1]), R(r[2])), Counted)

ContainerResize ==
    \E s \in Sizes :
        /\ MayDeliver
        /\ Becomes(containerResize(world, s[1], s[2]),
                   [Counted EXCEPT !.asked = [set |-> TRUE, width |-> s[1], height |-> s[2]]])

ContainerRender ==
    /\ MayDeliver
    /\ Becomes(render(world, NoPrepare),
               [Counted EXCEPT !.rendered = TRUE, !.superseded = fr.pendingPartial > 0])

SetFlameChartPosition ==
    /\ MayDeliver
    /\ \/ \E x \in PositionXs : Becomes(setFlameChartPositionX(world, R(x)), Counted)
       \/ \E y \in PositionYs : Becomes(setFlameChartPositionY(world, y), Counted)

SetNodes ==
    \E data \in DataSets : MayDeliver /\ Becomes(setNodes(world, data), Counted)

Next ==
    \/ MouseMove \/ MouseDown \/ MouseUp \/ MouseLeave \/ MouseWheel
    \/ GlobalFrame \/ PartialFrame \/ RebuildTimeout \/ DoubleClickTimeout
    \/ ContainerSetZoom \/ ContainerResize \/ ContainerRender
    \/ SetFlameChartPosition \/ SetNodes

Spec == Init /\ [][Next]_vars

\* the pointer at work: mouse events, frames and timers
NextPointer ==
    \/ MouseMove \/ MouseDown \/ MouseUp \/ MouseLeave
    \/ GlobalFrame \/ PartialFrame \/ RebuildTimeout \/ DoubleClickTimeout

SpecPointer == Init /\ [][NextPointer]_vars

\* hovering: the pointer moves and the wheel turns while frames rebuild the
\* hit regions
NextHover ==
    \/ MouseMove \/ MouseWheel \/ GlobalFrame \/ PartialFrame \/ RebuildTimeout

SpecHover == Init /\ [][NextHover]_vars

\* the viewport at work: the wheel and the public operations
NextView ==
    \/ MouseWheel \/ ContainerSetZoom \/ ContainerResize
    \/ SetFlameChartPosition \/ SetNodes \/ GlobalFrame

SpecView == Init /\ [][NextView]_vars

\* the frames at work: full renders asked for by the application, partial
\* renders asked for by hovering and by selecting a range, and the callbacks
NextFrames ==
    \/ ContainerRender \/ MouseMove \/ MouseDown
    \/ GlobalFrame \/ PartialFrame \/ RebuildTimeout

SpecFrames == Init /\ [][NextFrames]_vars

\* a chart built with an empty data set: its extent is max = min = 0
InitEmpty ==
    LET w == Construct(<<>>, Width, Height)
    IN  /\ re = w.re /\ ch = w.ch /\ tg = w.tg /\ ie = w.ie /\ hr = w.hr
        /\ sel = w.sel /\ fc = w.fc /\ fr = w.fr /\ ev = <<>>
        /\ hist = [events |-> 0, pressed |-> FALSE, moved |-> FALSE,
                   prevHover |-> NoRegion, armedByClick |-> FALSE,
                   secondClick |-> FALSE, isDoubleClick |-> FALSE,
                   rendered |-> FALSE, superseded |-> FALSE,
                   asked |-> NoPrepare]

\* the empty chart at work: the wheel, and the double-click that resets
NextEmpty ==
    \/ MouseWheel \/ MouseMove \/ MouseUp \/ DoubleClickTimeout
    \/ GlobalFrame \/ PartialFrame \/ RebuildTimeout

SpecEmpty == InitEmpty /\ [][NextEmpty]_vars

\* a chart built with any of the forests
InitData ==
    \E data \in Forests :
        LET w == Construct(data, Width, Height)
        IN  /\ re = w.re /\ ch = w.ch /\ tg = w.tg /\ ie = w.ie /\ hr = w.hr
            /\ sel = w.sel /\ fc = w.fc /\ fr = w.fr /\ ev = <<>>
            /\ hist = [events |-> 0, pressed |-> FALSE, moved |-> FALSE,
                       prevHover |-> NoRegion, armedByClick |-> FALSE,
                       secondClick |-> FALSE, isDoubleClick |-> FALSE,
                       rendered |-> FALSE, superseded |-> FALSE,
                   asked |-> NoPrepare]

\* FlameChart.setNodes with any of the forests
LoadData ==
    \E data \in Forests : MayDeliver /\ Becomes(setNodes(world, data), Counted)

\* the data at work: loads, the wheel, and the frames that re-cluster
NextData == LoadData \/ MouseWheel \/ GlobalFrame

SpecData == InitData /\ [][NextData]_vars

\* resizing: the application resizes and renders, the browser runs the
\* frames; requestAnimationFrame runs every callback it was given
NextResize == ContainerResize \/ ContainerRender \/ GlobalFrame

SpecResize == Init /\ [][NextResize]_vars /\ WF_vars(GlobalFrame)

\* the root heights a chart with toggles is given, and the rows the pointer
\* visits (every tenth row down to MaxRow * 10)
TallHeight == 300
PanelHeights == {Height, TallHeight}
MaxRow == 30
PanelYs == {10 * k : k \in 0..MaxRow}
Layouts == {WaterfallChartPlugins, TwoChartsPlugins}

\* a chart with toggles: FlameChart built with data and waterfall, or a
\* container with two flame charts
InitPanels ==
    \E plugins \in Layouts :
        LET w == ConstructContainer(plugins, Width, Height)
        IN  /\ re = w.re /\ ch = w.ch /\ tg = w.tg /\ ie = w.ie /\ hr = w.hr
            /\ sel = w.sel /\ fc = w.fc /\ fr = w.fr /\ ev = <<>>
            /\ hist = [events |-> 0, pressed |-> FALSE, moved |-> FALSE,
                       prevHover |-> NoRegion, armedByClick |-> FALSE,
                       secondClick |-> FALSE, isDoubleClick |-> FALSE,
                       rendered |-> FALSE, superseded |-> FALSE,
                       asked |-> NoPrepare]

\* the pointer is over the hit regions of toggle t (the rows of
\* styles.height below the panel's top)
overToggle(w, t) ==
    /\ t \in DOMAIN w.re.plugins /\ isToggle(w, t)
    /\ w.ch[t].position < w.ie.mouse.y
    /\ w.ie.mouse.y <= w.ch[t].position + ToggleStylesHeight

\* RenderEngine.resize(width, height), which the frame runs for the
\* container's resize
RootResize ==
    \E height \in PanelHeights :
        /\ MayDeliver
        /\ Becomes(resize(world, re.width, height), Counted)

\* a mousemove over the canvas, as the toggles hear it
PanelMove ==
    \E y \in PanelYs :
        /\ MayDeliver /\ y <= re.height
        /\ Becomes(moveToggles([world EXCEPT !.ie.mouse.y = y], 1),
                   [Counted EXCEPT !.moved = @ \/ y # ie.mouse.y])

\* a mousedown on the knob of a toggle: the knob is there when the panel
\* above is flexible
KnobDown ==
    \E t \in DOMAIN re.plugins :
        /\ MayDeliver
        /\ overToggle(world, t) /\ ch[t - 1].flexible
        /\ Becomes(toggleDown(world, t), [Counted EXCEPT !.moved = FALSE, !.pressed = TRUE])

\* a mouseup or a mouseleave, as the toggles hear it
PanelUp ==
    /\ MayDeliver
    /\ Becomes(upToggles(world, 1), [Counted EXCEPT !.pressed = FALSE])

\* a click on the button of a toggle: the 'up' and then the 'click' of the
\* mouseup that ends it
ToggleClick ==
    \E t \in DOMAIN re.plugins :
        /\ MayDeliver
        /\ overToggle(world, t)
        /\ Becomes(toggleClick(upToggles(world, 1), t), [Counted EXCEPT !.pressed = FALSE])

\* the panels at work: root resizes, and the pointer on the toggles.  The
\* listeners of the other plugins change no panel's size.
NextPanels == RootResize \/ PanelMove \/ KnobDown \/ PanelUp \/ ToggleClick

SpecPanels == InitPanels /\ [][NextPanels]_vars

----------------------------------------------------------------------------
(* The viewport: zoom floor, pan clamp, coordinate transforms.             *)

ProperExtent == RGt(re.max, re.min) /\ re.width > 0

\* C1: in every reachable state with max > min and width > 0 the root
\* viewport has zoom >= initialZoom = width / (max - min) and
\* min <= positionX <= max - width / zoom
C1_ViewportWithinExtent ==
    ProperExtent =>
        /\ RGe(re.zoom, getInitialZoom(re))
        /\ RGe(re.positionX, re.min)
        /\ RLe(re.positionX, RSub(re.max, getRealView(re)))

\* the pans tried in every reachable state, in ticks
PanDeltas == {R(0 - 100), R(0 - 10), R0, R(10), R(100)}

\* C2: for any deltaTime, tryToChangePosition sets positionX to
\* positionX + deltaTime when the window it gives stays inside [min, max], to
\* min when it would fall below min, and to max - width / zoom when it would
\* pass max; so after any pan min <= positionX <= max - width / zoom
C2_PanClamps ==
    \A d \in PanDeltas :
        LET realView == getRealView(re)
            target == RAdd(re.positionX, d)
            after == TryToChangePosition(world, d).re.positionX
        IN  /\ (RGe(target, re.min) /\ RLe(RAdd(target, realView), re.max))
                   => after = target
            /\ RLt(target, re.min) => after = re.min
            /\ RGt(RAdd(target, realView), re.max) => after = RSub(re.max, realView)
            /\ RGe(after, re.min)
            /\ RLe(after, RSub(re.max, realView))

\* C3: a request to zoom out past fit is clamped: after setZoom(initialZoom / 2)
\* on the root viewport, and after FlameChartContainer.setZoom(start, end) with
\* end - start > max - min, the zoom equals initialZoom
C3_ZoomOutClamped ==
    ProperExtent =>
        /\ SetZoom(world, RDiv(getInitialZoom(re), R(2))).re.zoom = getInitialZoom(re)
        /\ \A r \in ZoomRanges :
               RGt(R(r[2] - r[1]), RSub(re.max, re.min))
                   => containerSetZoom(world, R(r[1]), R(r[2])).re.zoom
                          = getInitialZoom(re)

\* the times converted in every reachable state, in ticks
Times == {R0, R(10), R(20), R(30), R(40), R(80)}

Engines == {re} \cup {ch[i] : i \in DOMAIN ch}

\* C4 as stated: for every zoom > 0, every positionX and every t in [min, max],
\* pixelToTime(timeToPosition(t)) = t
C4_RoundTripIsIdentity ==
    \A e \in Engines : \A t \in Times :
        (RGt(e.zoom, R0) /\ RGe(t, e.min) /\ RLe(t, e.max))
            => pixelToTime(e, timeToPosition(e, t)) = t

\* C4, amended: pixelToTime converts a width, not a position, so for every
\* zoom > 0, every positionX and every t in [min, max],
\* pixelToTime(timeToPosition(t)) = t - positionX
C4_RoundTripIsOffset ==
    \A e \in Engines : \A t \in Times :
        (RGt(e.zoom, R0) /\ RGe(t, e.min) /\ RLe(t, e.max))
            => pixelToTime(e, timeToPosition(e, t)) = RSub(t, e.positionX)

\* a scrolled, zoomed-in viewport, and a time of its extent that the round
\* trip does not give back
C4_Scrolled ==
    /\ RGt(re.positionX, R0)
    /\ RGt(re.zoom, getInitialZoom(re))
    /\ \E t \in Times :
           /\ RGe(t, re.min) /\ RLe(t, re.max)
           /\ pixelToTime(re, timeToPosition(re, t)) = RSub(t, re.positionX)
           /\ pixelToTime(re, timeToPosition(re, t)) # t

----------------------------------------------------------------------------
(* The panels' viewports, hovering, clicks and drags.                      *)

named(events, name) == SelectSeq(events, LAMBDA e : e.name = name)

\* the places of the events of one name among the events of the last handler
places(name) == {k \in DOMAIN ev : ev[k].name = name}

\* C5: between event handlers every child panel viewport has the same zoom,
\* positionX, min and max as the root viewport
C5_ChildrenFollowRoot ==
    \A i \in DOMAIN ch :
        /\ ch[i].zoom = re.zoom
        /\ ch[i].positionX = re.positionX
        /\ ch[i].min = re.min
        /\ ch[i].max = re.max

\* the regions of the hover events consumers have seen: the last one before
\* the handler that ran last, then that handler's
hoverRegions ==
    <<hist.prevHover>> \o [k \in DOMAIN hovers(ev) |-> hovers(ev)[k].region]

\* C6 as stated: hover(null) comes before hover(newRegion) whenever the
\* resolved region changes between non-null regions, so two consecutive hover
\* events are never both non-null
C6_NullBetweenHovers ==
    \A k \in 1..(Len(hoverRegions) - 1) :
        ~(hoverRegions[k] # NoRegion /\ hoverRegions[k + 1] # NoRegion)

\* C6, amended: a region's id is its panel's, so hover(null) comes before
\* hover(newRegion) whenever the pointer passes from a region of one panel to
\* a region of another; two consecutive non-null hover events always carry
\* regions of one panel
C6_NullBetweenPanels ==
    \A k \in 1..(Len(hoverRegions) - 1) :
        (hoverRegions[k] # NoRegion /\ hoverRegions[k + 1] # NoRegion)
            => hoverRegions[k].id = hoverRegions[k + 1].id

\* the pointer went from a region of one panel to a region of another, and
\* the handler sent hover(null), then hover(newRegion)
C6_PanelChanged ==
    /\ Len(hoverRegions) = 3
    /\ hoverRegions[1] # NoRegion
    /\ hoverRegions[2] = NoRegion
    /\ hoverRegions[3] # NoRegion
    /\ hoverRegions[3].id # hoverRegions[1].id

\* C7: an up is a click (isClick, 'select' then 'click' emitted) exactly when
\* no move with a non-zero displacement came between the preceding down and
\* that up; an up that follows such a move is no click and emits no select
C7_ClickIffNoMove ==
    \A k \in places("up") :
        ie.mouseDownPosition.set =>
            /\ ev[k].isClick <=> ~hist.moved
            /\ ev[k].isClick =>
                   /\ \E s \in places("select") : s < k
                   /\ \E c \in places("click") : c > k
            /\ ~ev[k].isClick => places("select") = {} /\ places("click") = {}

\* C8: a second click on the timeframe selector less than 300 ms after a
\* prior click is a double-click and resets the view (zoom = initialZoom,
\* positionX = min); an up that is no such second click is no double-click
C8_DoubleClickIffSecondClick ==
    /\ hist.isDoubleClick <=> hist.secondClick
    /\ hist.secondClick =>
           /\ re.zoom = getInitialZoom(re)
           /\ re.positionX = re.min

\* C9: a move emits change-position if and only if the pointer is pressed and
\* its position changed, with deltaX = (previous x - new x) / zoom and
\* deltaY = previous y - new y
C9_ChangePositionIffDragged ==
    [][ (named(ev', "move") # <<>>) =>
            LET sent == named(ev', "change-position")
                dx == ie.mouse.x - ie'.mouse.x
                dy == ie.mouse.y - ie'.mouse.y
            IN  /\ (sent # <<>>) <=> (hist.pressed /\ (dx # 0 \/ dy # 0))
                /\ Len(sent) <= 1
                /\ (sent # <<>>) =>
                       /\ sent[1].deltaX = RDiv(R(dx), re.zoom)
                       /\ sent[1].deltaY = dy ]_vars

\* a drag: the last move sent change-position with both deltas non-zero
C9_Dragged ==
    \E k \in places("change-position") :
        /\ ~RIsZero(ev[k].deltaX)
        /\ ev[k].deltaY # 0
        /\ hist.pressed

\* the regions of the panel under the pointer that contain it, by place
containing ==
    IF findInstance(world) = 0 THEN {}
    ELSE {k \in DOMAIN hr[findInstance(world)] :
             regionContains(world, hr[findInstance(world)][k],
                            ch[findInstance(world)].position)}

\* C10: hit-testing is first-match-wins in insertion order: of the regions
\* of the panel under the pointer that contain it, a move resolves the one
\* added first (and null when none contains it)
C10_FirstMatchWins ==
    places("move") # {} =>
        /\ containing = {} => ie.hoveredRegion = NoRegion
        /\ \A a \in containing :
               (\A b \in containing : a <= b)
                   => ie.hoveredRegion = hr[findInstance(world)][a]

\* the pointer is in several regions of one panel that differ, and the move
\* resolved the first
C10_Overlapped ==
    /\ places("move") # {}
    /\ \E a, b \in containing :
           /\ a < b
           /\ hr[findInstance(world)][a] # hr[findInstance(world)][b]
           /\ ie.hoveredRegion = hr[findInstance(world)][a]

----------------------------------------------------------------------------
(* Frames: what is in the browser's animation-frame queue.                 *)

\* C11: under any interleaving of render and partialRender requests and
\* frame callbacks at most one full-render callback and at most one
\* partial-render callback are pending, however many requests were made: the
\* queue holds exactly the callbacks the engine keeps a handle of
C11_OneFrameOfEachKind ==
    /\ fr.pendingGlobal = (IF fr.lastGlobalAnimationFrame THEN 1 ELSE 0)
    /\ fr.pendingPartial = (IF fr.lastPartialAnimationFrame THEN 1 ELSE 0)

\* two partial renders of a panel were asked for and one callback is pending
C11_Coalesced ==
    /\ Len(fr.requestedRenders) >= 2
    /\ fr.pendingPartial = 1
    /\ fr.pendingGlobal = 1

\* C12: a full-render request cancels the pending partial render: right after
\* render() no partial-render callback is pending and no panel render is
\* requested, so a partial callback scheduled before it never runs
C12_RenderCancelsPartial ==
    hist.rendered =>
        /\ fr.pendingPartial = 0
        /\ ~fr.lastPartialAnimationFrame
        /\ fr.requestedRenders = <<>>
        /\ fr.pendingGlobal = 1

\* render() was called while a partial frame was in the queue
C12_Superseded ==
    /\ hist.rendered
    /\ hist.superseded
    /\ fr.pendingPartial = 0

----------------------------------------------------------------------------
(* Loading data.                                                           *)

\* forests with a node of negative duration: alone, and below a sound root
InvalidDataSets ==
    { << Node(10, 0 - 5, "a", <<>>) >>,
      << Node(0, 40, "a", << Node(10, 0 - 5, "b", <<>>) >>) >> }

\* C13: setData with a forest that contains a node with negative duration is
\* rejected: the flat tree, the meta-clusters, the render clusters, min / max
\* and the viewport are left unchanged
C13_InvalidDataRejected ==
    \A data \in InvalidDataSets :
        /\ fcParseData(world, data).fc.flatTree = fc.flatTree
        /\ fcSetData(world, data).fc.flatTree = fc.flatTree
        /\ fcSetData(world, data).fc.metaClusterizedFlatTree = fc.metaClusterizedFlatTree
        /\ fcSetData(world, data).fc.actualClusterizedFlatTree = fc.actualClusterizedFlatTree
        /\ fcSetData(world, data).fc.min = fc.min
        /\ fcSetData(world, data).fc.max = fc.max
        /\ fcSetData(world, data).re = re

----------------------------------------------------------------------------
(* The degenerate extent.                                                  *)

\* the zoom a wheel turn of deltaY asks for
wheelRequest(deltaY) == RSub(re.zoom, RMul(Rat(deltaY, 1000), re.zoom))

\* C14: with max <= min the viewport falls back to initialZoom = 1, reset-to-fit
\* yields zoom = 1 and positionX = min, and zoom-out requests are not clamped
\* at initialZoom: the wheel gives the zoom it asks for
C14_DegenerateExtent ==
    ~RGt(re.max, re.min) =>
        /\ getInitialZoom(re) = ROne
        /\ ResetView(world).re.zoom = ROne
        /\ ResetView(world).re.positionX = re.min
        /\ hist.isDoubleClick => (re.zoom = ROne /\ re.positionX = re.min)
        /\ \A d \in Wheels :
               (d[1] = 0 /\ d[2] > 0)
                   => handleMouseWheel(world, d[1], d[2]).re.zoom = wheelRequest(d[2])

----------------------------------------------------------------------------
(* C15: flatTree.  What the forest itself says about each of its nodes, in  *)
(* the order of a depth-first visit: start, duration, type, depth, the end  *)
(* start + duration and the description of the tree parent (<<>> for none). *)

describe(node, level) == <<node.start, node.duration, node.type, level>>

RECURSIVE visit(_, _, _)
visit(treeList, parent, level) ==
    IF Len(treeList) = 0 THEN <<>>
    ELSE LET child == Head(treeList)
         IN  << [node |-> describe(child, level),
                 end |-> RAdd(child.start, child.duration),
                 parent |-> parent] >>
             \o visit(child.children, describe(child, level), level + 1)
             \o visit(Tail(treeList), parent, level)

\* the flat node that was the k-th visited, and what it says about itself
visited(flat, k) == flat[CHOOSE i \in 1..Len(flat) : flat[i].index = k]

observed(flat, k) ==
    LET n == visited(flat, k)
    IN  [node |-> describe(n, n.level), end |-> n.end,
         parent |-> IF n.parent = 0 - 1 THEN <<>>
                    ELSE describe(visited(flat, n.parent), visited(flat, n.parent).level)]

byLevelThenStart(flat) ==
    \A i \in 1..Len(flat), j \in 1..Len(flat) :
        i < j => \/ flat[i].level < flat[j].level
                 \/ flat[i].level = flat[j].level /\ RLe(flat[i].start, flat[j].start)

\* C15: the flat tree of the loaded forest has one flat node per node of the
\* forest, each with the node's depth as level, its tree parent's flat node
\* as parent (none for a root) and end = start + duration, and the flat nodes
\* are sorted by level ascending, then start ascending
C15_FlatTreeOfForest ==
    LET expected == visit(fc.data, <<>>, 0)
    IN  /\ Len(fc.flatTree) = Len(expected)
        /\ \A k \in 1..Len(expected) :
               /\ Cardinality({i \in 1..Len(fc.flatTree) : fc.flatTree[i].index = k - 1}) = 1
               /\ observed(fc.flatTree, k - 1) = expected[k]
        /\ byLevelThenStart(fc.flatTree)

\* a forest of three levels was loaded and the sort moved nodes of the visit
C15_Reordered ==
    /\ hist.events > 0
    /\ \E i \in 1..Len(fc.flatTree) : fc.flatTree[i].level = 2
    /\ \E i \in 1..Len(fc.flatTree) : fc.flatTree[i].index # i - 1

----------------------------------------------------------------------------
(* C16: metaClusterizeFlatTree.                                             *)

RECURSIVE concatNodes(_)
concatNodes(clusters) ==
    IF Len(clusters) = 0 THEN <<>>
    ELSE concatNodes(SubSeq(clusters, 1, Len(clusters) - 1)) \o clusters[Len(clusters)].nodes

\* the cluster that holds the i-th node of the concatenation
RECURSIVE clusterAt(_, _)
clusterAt(clusters, i) ==
    IF i <= Len(Head(clusters).nodes) THEN 1
    ELSE 1 + clusterAt(Tail(clusters), i - Len(Head(clusters).nodes))

alike(a, b) == a.level = b.level /\ defaultClusterizeCondition(a, b)

\* C16: the meta-clusters partition the flat tree: their node lists, put end
\* to end, are the flat tree; neighbours inside a cluster share the level and
\* satisfy the predicate; neighbours of the flat tree that share the level
\* and satisfy the predicate are in one cluster
C16_MetaClustersPartition ==
    LET flat == fc.flatTree
        meta == fc.metaClusterizedFlatTree
    IN  /\ concatNodes(meta) = flat
        /\ \A c \in 1..Len(meta) :
               /\ Len(meta[c].nodes) > 0
               /\ \A i \in 1..(Len(meta[c].nodes) - 1) :
                      alike(meta[c].nodes[i], meta[c].nodes[i + 1])
        /\ \A i \in 1..(Len(flat) - 1) :
               alike(flat[i], flat[i + 1]) => clusterAt(meta, i) = clusterAt(meta, i + 1)

\* loaded data of which one level holds both a joined pair and a split pair
C16_JoinedAndSplit ==
    /\ hist.events > 0
    /\ \E c \in 1..Len(fc.metaClusterizedFlatTree) :
           Len(fc.metaClusterizedFlatTree[c].nodes) > 1
    /\ \E i \in 1..(Len(fc.flatTree) - 1) :
           /\ fc.flatTree[i].level = fc.flatTree[i + 1].level
           /\ fc.flatTree[i].type # fc.flatTree[i + 1].type

----------------------------------------------------------------------------
(* C17: clustering, then re-clustering, with the same zoom and window.      *)

clusterize(meta, zoom, window) ==
    clusterizeFlatTree(meta, zoom, R(window[1]), R(window[2]),
                       STICK_DISTANCE, MIN_BLOCK_SIZE)

reclusterize(clusters, zoom, window) ==
    reclusterizeClusteredFlatTree(clusters, zoom, R(window[1]), R(window[2]),
                                  STICK_DISTANCE, MIN_BLOCK_SIZE)

\* C17: for the meta-clusters of the loaded data and any zoom and window,
\* re-clustering the result of clustering gives that result again
C17_ReclusterizeFixedPoint ==
    \A zoom \in ClusterZooms, window \in ClusterWindows :
        reclusterize(clusterize(fc.metaClusterizedFlatTree, zoom, window), zoom, window)
            = clusterize(fc.metaClusterizedFlatTree, zoom, window)

\* loaded data of which, at some zoom and window, clustering makes a cluster
\* of several nodes wide enough to be clustered again, and leaves out a node
C17_ReclusteredAgain ==
    /\ hist.events > 0
    /\ \E zoom \in ClusterZooms, window \in ClusterWindows :
           LET clusters == clusterize(fc.metaClusterizedFlatTree, zoom, window)
           IN  /\ \E c \in 1..Len(clusters) :
                      /\ Len(clusters[c].nodes) > 1
                      /\ RGt(RMul(clusters[c].duration, zoom), MIN_CLUSTER_SIZE)
               /\ Len(concatNodes(clusters)) < Len(fc.flatTree)

----------------------------------------------------------------------------
(* C18: runs of narrow nodes that stick.                                    *)

RECURSIVE visibleNodes(_, _)
visibleNodes(nodes, window) ==
    IF Len(nodes) = 0 THEN <<>>
    ELSE IF checkNodeTimeboundNesting(Head(nodes), R(window[1]), R(window[2]))
    THEN <<Head(nodes)>> \o visibleNodes(Tail(nodes), window)
    ELSE visibleNodes(Tail(nodes), window)

\* nodes i..j are each under minBlockSize pixels wide and each begins less
\* than stickDistance pixels after the end of the one before
packed(nodes, i, j, zoom) ==
    /\ \A k \in i..j : RLt(RMul(nodes[k].duration, zoom), MIN_BLOCK_SIZE)
    /\ \A k \in (i + 1)..j :
           RLt(RMul(RSub(nodes[k].start, nodes[k - 1].end), zoom), STICK_DISTANCE)

\* the clusters that hold one of the nodes i..j
holding(clusters, nodes, i, j) ==
    {c \in 1..Len(clusters) :
        \E k \in i..j, n \in 1..Len(clusters[c].nodes) :
            clusters[c].nodes[n].index = nodes[k].index}

\* C18: at any zoom and window, every run of visible nodes of one
\* meta-cluster that are narrow and stick to each other is in one cluster,
\* however long the run
C18_PackedRunIsOneCluster ==
    \A zoom \in ClusterZooms, window \in ClusterWindows :
        \A m \in 1..Len(fc.metaClusterizedFlatTree) :
            LET nodes == visibleNodes(fc.metaClusterizedFlatTree[m].nodes, window)
                clusters == clusterize(<<fc.metaClusterizedFlatTree[m]>>, zoom, window)
            IN  \A i \in 1..Len(nodes), j \in 1..Len(nodes) :
                    i <= j /\ packed(nodes, i, j, zoom)
                        => Cardinality(holding(clusters, nodes, i, j)) = 1

\* loaded data with a packed run of four nodes in one cluster, and another
\* cluster of the same meta-cluster beside it
C18_RunOfFour ==
    /\ hist.events > 0
    /\ \E zoom \in ClusterZooms, window \in ClusterWindows :
           \E m \in 1..Len(fc.metaClusterizedFlatTree) :
               LET nodes == visibleNodes(fc.metaClusterizedFlatTree[m].nodes, window)
                   clusters == clusterize(<<fc.metaClusterizedFlatTree[m]>>, zoom, window)
               IN  /\ Len(nodes) > 4
                   /\ packed(nodes, 1, 4, zoom)
                   /\ Cardinality(holding(clusters, nodes, 1, 4)) = 1
                   /\ Len(clusters) = 2

----------------------------------------------------------------------------
(* C19: render clusters as runs of a meta-cluster.                          *)

isSubRun(nodes, of) ==
    \E o \in 0..(Len(of) - Len(nodes)) :
        \A k \in 1..Len(nodes) : of[o + k] = nodes[k]

runsOf(clusters, meta) ==
    \A c \in 1..Len(clusters) :
        \E m \in 1..Len(meta) : isSubRun(clusters[c].nodes, meta[m].nodes)

\* C19: at any zoom and window, the nodes of every cluster that clustering
\* makes of the meta-clusters, and of every cluster that re-clustering makes
\* of the clusters of the load, are a run of neighbours of one meta-cluster
C19_ClustersAreRuns ==
    \A zoom \in ClusterZooms, window \in ClusterWindows :
        /\ runsOf(clusterize(fc.metaClusterizedFlatTree, zoom, window),
                  fc.metaClusterizedFlatTree)
        /\ runsOf(reclusterize(fc.initialClusterizedFlatTree, zoom, window),
                  fc.metaClusterizedFlatTree)

\* no two nodes of one level of the loaded data overlap in time
sameLevelDisjoint ==
    \A i \in 1..Len(fc.flatTree), j \in 1..Len(fc.flatTree) :
        i < j /\ fc.flatTree[i].level = fc.flatTree[j].level
            => RLe(fc.flatTree[i].end, fc.flatTree[j].start)

\* what does hold: the clusters are runs when the nodes of a level are disjoint
C19_RunsWhenDisjoint == sameLevelDisjoint => C19_ClustersAreRuns

----------------------------------------------------------------------------
(* C20: the clusters the flame chart panel draws.                           *)

\* no frame is waiting: the panel has drawn the view it has
settled == fr.pendingGlobal = 0 /\ fr.pendingPartial = 0

\* clusterize of the meta-clusters at the panel's zoom and visible window
clusterizedNow ==
    clusterizeFlatTree(fc.metaClusterizedFlatTree, ch[FLAME].zoom, ch[FLAME].positionX,
                       RAdd(ch[FLAME].positionX, getRealView(ch[FLAME])),
                       STICK_DISTANCE, MIN_BLOCK_SIZE)

\* C20: once the frames are drawn, the clusters of the panel are what
\* clustering makes of the meta-clusters at the current zoom and window,
\* whatever loads, zooms and pans came before
C20_ClustersFollowView ==
    settled => fc.actualClusterizedFlatTree = clusterizedNow

----------------------------------------------------------------------------
(* C21: RenderEngine.setZoom and the accuracy of the time grid.             *)

\* the zooms asked for in every reachable state, as multiples of the zoom
ZoomFactors == {<<1, 2>>, R1, <<3, 2>>, R(2)}

\* C21: setZoom(z) returns false and leaves the zoom of the root and of every
\* panel as it was exactly when the accuracy of the time grid is at least
\* MAX_ACCURACY and z is above the zoom; otherwise it returns true and the
\* root and every panel have zoom z
C21_SetZoomRejectedAtAccuracy ==
    \A f \in ZoomFactors :
        LET z == RMul(re.zoom, f)
            after == SetZoom(world, z)
            rejected == tg.accuracy >= MAX_ACCURACY /\ RGt(z, re.zoom)
        IN  /\ SetZoomAccepted(world, z) = ~rejected
            /\ rejected => after.re.zoom = re.zoom
                           /\ \A i \in Panels : after.ch[i].zoom = ch[i].zoom
            /\ ~rejected => after.re.zoom = z /\ \A i \in Panels : after.ch[i].zoom = z

\* the accuracy has reached MAX_ACCURACY after zooming in: a zoom-in is
\* refused here and a zoom-out is not
C21_AtAccuracy ==
    /\ hist.events > 0
    /\ tg.accuracy >= MAX_ACCURACY
    /\ RGt(re.zoom, getInitialZoom(re))
    /\ SetZoom(world, RMul(re.zoom, R(2))) = world
    /\ SetZoom(world, RMul(re.zoom, <<1, 2>>)) # world

----------------------------------------------------------------------------
(* C22: RenderEngine.resize.                                                *)

\* the widths the root is resized to in every reachable state
ResizeWidths == {Width \div 2, Width, WideWidth}

\* a position brought back into the pan bounds of engine e
clamped(e, x) ==
    IF RLt(x, e.min) THEN e.min
    ELSE IF RGt(x, RSub(e.max, getRealView(e))) THEN RSub(e.max, getRealView(e))
    ELSE x

withinPanBounds(e) ==
    RGe(e.positionX, e.min) /\ RLe(e.positionX, RSub(e.max, getRealView(e)))

\* C22: after resize(width, height), a zoom below the new initialZoom has
\* become the new initialZoom with positionX = min; any other zoom is kept
\* and positionX has moved by -(width - oldWidth) / (2 * zoom), clamped to
\* the pan bounds; either way min <= positionX <= max - width / zoom
C22_ResizeRefitsOrRecentres ==
    \A width \in ResizeWidths :
        LET after == resize(world, width, Height).re
            newInitialZoom == getInitialZoom(after)
            shifted == RSub(re.positionX, RDiv(R(width - re.width), RMul(R(2), re.zoom)))
        IN  /\ RLt(re.zoom, newInitialZoom)
                   => after.zoom = newInitialZoom /\ after.positionX = re.min
            /\ ~RLt(re.zoom, newInitialZoom)
                   => after.zoom = re.zoom /\ after.positionX = clamped(after, shifted)
            /\ withinPanBounds(after)

----------------------------------------------------------------------------
(* C23: what re-clustering does with each cluster.                          *)

overlaps(cluster, window) ==
    RLt(cluster.start, R(window[2])) /\ RGt(cluster.end, R(window[1]))

exceeds(cluster, zoom) ==
    RGt(RMul(cluster.duration, zoom),
        RAdd(RMul(R(2), MIN_BLOCK_SIZE), STICK_DISTANCE))

\* what becomes of one cluster when the clusters for which `kept` holds are
\* kept and the others clustered again from their own nodes
piece(cluster, zoom, window, kept) ==
    IF ~overlaps(cluster, window) THEN <<>>
    ELSE IF kept THEN <<cluster>>
    ELSE clusterize(<<[nodes |-> cluster.nodes]>>, zoom, window)

RECURSIVE concat(_)
concat(pieces) ==
    IF Len(pieces) = 0 THEN <<>>
    ELSE concat(SubSeq(pieces, 1, Len(pieces) - 1)) \o pieces[Len(pieces)]

\* C23 as stated: at any zoom and window, re-clustering the clusters of the
\* load keeps each overlapping cluster wider than 2 * minBlockSize +
\* stickDistance pixels, clusters again the nodes of each overlapping cluster
\* that is not wider, and drops the clusters that do not overlap the window
C23_KeepsWideClusters ==
    \A zoom \in ClusterZooms, window \in ClusterWindows :
        reclusterize(fc.initialClusterizedFlatTree, zoom, window)
            = concat([c \in 1..Len(fc.initialClusterizedFlatTree) |->
                         piece(fc.initialClusterizedFlatTree[c], zoom, window,
                               exceeds(fc.initialClusterizedFlatTree[c], zoom))])

\* C23 amended: it is the clusters of at most 2 * minBlockSize + stickDistance
\* pixels that are kept, and the wider ones whose nodes are clustered again
C23_KeepsNarrowClusters ==
    \A zoom \in ClusterZooms, window \in ClusterWindows :
        reclusterize(fc.initialClusterizedFlatTree, zoom, window)
            = concat([c \in 1..Len(fc.initialClusterizedFlatTree) |->
                         piece(fc.initialClusterizedFlatTree[c], zoom, window,
                               ~exceeds(fc.initialClusterizedFlatTree[c], zoom))])

\* loaded data whose clusters re-clustering, at the zooms and windows tried,
\* splits (a wide cluster of several nodes), keeps (a narrow one) and drops
C23_SplitKeptDropped ==
    LET initial == fc.initialClusterizedFlatTree
    IN  /\ hist.events > 0
        /\ \E zoom \in ClusterZooms, window \in ClusterWindows, c \in 1..Len(initial) :
               /\ overlaps(initial[c], window) /\ exceeds(initial[c], zoom)
               /\ Len(initial[c].nodes) > 1
               /\ Len(piece(initial[c], zoom, window, FALSE)) > 1
        /\ \E zoom \in ClusterZooms, window \in ClusterWindows, c \in 1..Len(initial) :
               overlaps(initial[c], window) /\ ~exceeds(initial[c], zoom)
        /\ \E window \in ClusterWindows, c \in 1..Len(initial) :
               ~overlaps(initial[c], window)

----------------------------------------------------------------------------
(* C24: the panel that owns the pointer.                                    *)

\* the pointer positions tried in every reachable state: inside each panel,
\* on the borders of the panels and below the canvas
PointerXs == {0, 3, 50, 99}
PointerYs == {0, 10, 60, 70, 80, 85, 90, 250}

pointerAt(x, y) == [world EXCEPT !.ie.mouse = [x |-> x, y |-> y]]

\* the panels whose band [position, position + height] holds y
owners(y) == {i \in Panels : ch[i].position <= y /\ y <= ch[i].position + ch[i].height}

\* region r holds the point (x, y - position of panel i)
holdsLocally(r, i, x, y) ==
    /\ RLe(r.x, R(x)) /\ RLe(R(x), RAdd(r.x, r.w))
    /\ RLe(r.y, R(y - ch[i].position)) /\ RLe(R(y - ch[i].position), RAdd(r.y, r.h))

\* C24: for any pointer position the resolved region is a region of a panel
\* whose band holds the pointer's y, and it holds the pointer in that panel's
\* coordinates; the result is null when no panel holds y or no region of the
\* owning panel holds the pointer, and only then
C24_RegionOfOwningPanel ==
    \A x \in PointerXs, y \in PointerYs :
        LET r == getHoveredRegion(pointerAt(x, y))
        IN  /\ r # NoRegion =>
                   /\ r.id \in owners(y)
                   /\ \E k \in DOMAIN hr[r.id] : hr[r.id][k] = r
                   /\ holdsLocally(r, r.id, x, y)
            /\ owners(y) = {} => r = NoRegion
            /\ (\A i \in owners(y) : \A k \in DOMAIN hr[i] : ~holdsLocally(hr[i][k], i, x, y))
                   => r = NoRegion
            /\ \A i \in Panels :
                   (owners(y) = {i} /\ \E k \in DOMAIN hr[i] : holdsLocally(hr[i][k], i, x, y))
                       => r # NoRegion

\* regions of two panels are registered; at some of the positions tried a
\* region of the flame chart panel is resolved, at another there is a region
\* of a panel that does not own the pointer at the same place of the canvas
C24_TwoPanelsWithRegions ==
    /\ hist.events > 0
    /\ Len(hr[SELECTOR]) > 0 /\ Len(hr[FLAME]) > 0
    /\ \E x \in PointerXs, y \in PointerYs :
           getHoveredRegion(pointerAt(x, y)) # NoRegion
           /\ getHoveredRegion(pointerAt(x, y)).id = FLAME
    /\ \E x \in PointerXs, y \in PointerYs :
           /\ owners(y) = {SELECTOR}
           /\ \E k \in DOMAIN hr[FLAME] :
                  /\ RLe(hr[FLAME][k].x, R(x)) /\ RLe(R(x), RAdd(hr[FLAME][k].x, hr[FLAME][k].w))
                  /\ RLe(hr[FLAME][k].y, R(y)) /\ RLe(R(y), RAdd(hr[FLAME][k].y, hr[FLAME][k].h))
           /\ getHoveredRegion(pointerAt(x, y)).id # FLAME

----------------------------------------------------------------------------
(* C26: the deferred rebuild of the flame chart's hit regions.              *)

\* the regions of the clusters of w that are on screen, in order
RECURSIVE clusterRegions(_, _)
clusterRegions(w, clusters) ==
    IF Len(clusters) = 0 THEN <<>>
    ELSE LET cluster == clusters[Len(clusters)]
             rect == calcRect(w, cluster.start, cluster.duration, cluster.level)
         IN  clusterRegions(w, SubSeq(clusters, 1, Len(clusters) - 1))
             \o IF onScreen(rect, w.ch[FLAME].width, w.ch[FLAME].height)
                THEN << Region("cluster", [NoData EXCEPT !.nodes = cluster.nodes],
                               rect.x, rect.y, rect.w, R(BlockHeight), FLAME) >>
                ELSE <<>>

\* a frame or a timer (no event, no call) ran
frameOrTimer == hist'.events = hist.events

flameRendered ==
    /\ frameOrTimer
    /\ \/ fr'.pendingGlobal < fr.pendingGlobal
       \/ fr'.pendingPartial < fr.pendingPartial
          /\ \E k \in DOMAIN fr.requestedRenders : fr.requestedRenders[k] = FLAME

rebuilt ==
    frameOrTimer /\ fc'.renderChartTimeout.timers < fc.renderChartTimeout.timers

\* C26: there is never more than one rebuild timer; every render of the
\* flame chart leaves exactly one, whether or not one was waiting; when it
\* fires none is left and the panel's regions are, in order, one region per
\* cluster on screen
C26_OneRebuildAfterRenders ==
    [][/\ fc'.renderChartTimeout.timers <= 1
       /\ fc'.renderChartTimeout.pending = (fc'.renderChartTimeout.timers = 1)
       /\ flameRendered => fc'.renderChartTimeout.timers = 1
       /\ rebuilt => /\ fc'.renderChartTimeout.timers = 0
                     /\ hr'[FLAME] = clusterRegions(world', fc'.actualClusterizedFlatTree)]_vars

\* the rebuild has fired after the view changed: no timer is left and the
\* panel has regions of clusters in rows the pointer is not in
C26_Rebuilt ==
    /\ hist.events > 0
    /\ fc.renderChartTimeout.timers = 0
    /\ Len(hr[FLAME]) > 1
    /\ hr[FLAME] = clusterRegions(world, fc.actualClusterizedFlatTree)
    /\ \E k \in DOMAIN hr[FLAME] :
           ~(/\ RGe(getMouse(world).y, hr[FLAME][k].y)
             /\ RLe(getMouse(world).y, RAdd(hr[FLAME][k].y, R(BlockHeight))))

----------------------------------------------------------------------------
(* C27: drags end with the button.                                          *)

emitted(name) == \E k \in DOMAIN ev' : ev'[k].name = name

dragging(s) == s.leftKnobMoving \/ s.rightKnobMoving \/ s.selectingActive

\* C27: after an up or a mouseleave, wherever the pointer is, the selector
\* is in no drag state, and a move that comes while the button is released
\* changes neither the zoom, nor positionX, nor the height of a panel
C27_NoDragAfterUp ==
    [][/\ emitted("up") => ~dragging(sel')
       /\ (emitted("move") /\ ~hist.pressed) =>
              /\ re'.zoom = re.zoom /\ re'.positionX = re.positionX
              /\ \A i \in Panels : ch'[i].height = ch[i].height]_vars

\* what does hold: an up that reaches the selector ends its drags
C27_NoDragAfterUpInBand ==
    [][(emitted("up") /\ forwarded(world', SELECTOR, ie'.hoveredRegion)) => ~dragging(sel')]_vars

----------------------------------------------------------------------------
(* C28: FlameChartContainer.resize is applied by a frame.                   *)

applied == re.width = hist.asked.width /\ re.height = hist.asked.height

\* C28: once the frames asked for have run (frames are run as long as one is
\* waiting, so this comes about), the root's width and height are those of
\* the last resize call, also when a full render was waiting at the time of
\* the call
C28_ResizeEventuallyApplied ==
    (hist.asked.set /\ fr.pendingGlobal = 0) => applied

\* what does hold: a resize asked for while no full render is waiting is
\* applied by the next frame
C28_AppliedWhenNoneWaiting ==
    [][(hist'.asked # hist.asked /\ ~fr.lastGlobalAnimationFrame)
           => fr'.prepare = hist'.asked]_vars

----------------------------------------------------------------------------
(* C29: clicks follow a press.                                              *)

\* C29: 'click' and 'select' are emitted only by the up or mouseleave that
\* ends a press: a down came before, with no up since
C29_ClickOnlyAfterDown ==
    [][(emitted("click") \/ emitted("select")) => hist.pressed]_vars

----------------------------------------------------------------------------
(* C30: the panels tile the root.                                           *)

\* each panel begins where the one above it ends, the first at the top
stacked(w) ==
    /\ w.ch[1].position = 0
    /\ \A i \in 2..Len(w.ch) : w.ch[i].position = w.ch[i - 1].position + w.ch[i - 1].height

heightsSum(w) == SumOver([i \in 1..Len(w.ch) |-> w.ch[i].height], Len(w.ch))

\* C30: after every allocation (root resize, panel resize, collapse, expand)
\* the panels are stacked from position 0, no height is negative, and the
\* heights sum to at most the root height
C30_PanelsTile ==
    /\ stacked(world)
    /\ \A i \in DOMAIN ch : ch[i].height >= 0
    /\ heightsSum(world) <= re.height

\* the positions are cumulative whatever the heights are
C30_PanelsStacked == stacked(world)

----------------------------------------------------------------------------
(* C25: the allocation of the panels' heights.                              *)

growing(w) == {i \in 1..Len(w.ch) : engineType(w, i) = "flexibleGrowing"}

panelHeights(w) == [i \in 1..Len(w.ch) |-> w.ch[i].height]

\* the root height less the heights of the static and the flexible-static
\* panels, shared among the flexible-growing ones
evenShare(w) ==
    LET fixed == [i \in 1..Len(w.ch) |-> IF i \in growing(w) THEN 0 ELSE w.ch[i].height]
    IN  (w.re.height - SumOver(fixed, Len(w.ch))) \div Cardinality(growing(w))

collapsedAreFlat(w) == \A i \in 1..Len(w.ch) : w.ch[i].collapsed => w.ch[i].height = 0

sharedEvenly(w) ==
    \A i \in growing(w) : ~w.ch[i].collapsed => w.ch[i].height = evenShare(w)

stable(w) == panelHeights(recalcChildrenSizes(w)) = panelHeights(w)

\* C25: an allocation gives every collapsed panel 0 and every
\* flexible-growing panel the floor of its share of the free space, and a
\* second allocation right after it changes no height
C25_AllocationEvenAndStable ==
    LET allocated == recalcChildrenSizes(world)
    IN  /\ collapsedAreFlat(allocated)
        /\ sharedEvenly(allocated)
        /\ stable(allocated)

\* the same with one flexible-growing panel, as in the charts FlameChart
\* builds
C25_OneGrowingPanel ==
    LET allocated == recalcChildrenSizes(world)
    IN  Cardinality(growing(world)) = 1 =>
            /\ collapsedAreFlat(allocated)
            /\ sharedEvenly(allocated)
            /\ stable(allocated)

====
